---- MODULE Spec2Model ----
(***************************************************************************)
(* Plan -> Act -> Respond execution engine of eatmyvenom/AI.               *)
(*                                                                         *)
(* The module models one conversation turn driven through one of three     *)
(* entry points:                                                           *)
(*   entry = "agent"  : PlanActAgent.run()            (plan-act.agent.ts)  *)
(*   entry = "run"    : createPlanActChatAdapter.run  (plan-act.adapter.ts)*)
(*   entry = "stream" : createPlanActChatAdapter.stream                    *)
(* and the two generations of PlanActAgent.runActPhase kept in             *)
(* plan-act.agent.ts:                                                      *)
(*   variant = "structured" : lines 256-335 (structured output, dynamic    *)
(*                            step insertion through addPlanSteps)         *)
(*   variant = "text"       : lines 799-918 (free text output, external    *)
(*                            execution signal)                            *)
(*                                                                         *)
(* The language-model backend is an environment: every model call is       *)
(* issued by an action of the engine and its stream events (partials,      *)
(* text chunks, end, failure, hang) are chosen nondeterministically.       *)
(* Environment assumption: a failure of a call is delivered on the         *)
(* fullStream iteration (where the source catches it); the secondary       *)
(* iterators of the same call (textStream, experimental_partialOutput-     *)
(* Stream) end without raising.                                            *)
(***************************************************************************)
EXTENDS Integers, Sequences, FiniteSets, TLC

\* ------------------------------------------------------------------ bounds
MaxPlanLen == 3        \* longest plan the planner model produces
MaxActSteps == 2       \* largest configured act.steps
MaxAdded == 3          \* steps inserted dynamically during one turn
MaxChunks == 2         \* text chunks the Response call streams
MaxDeclared == 2       \* tools declared in one request
MaxDeltas == 2         \* deltas the text stream hands to the controller
MaxMessages == 3       \* messages of a request

\* ------------------------------------------------------- program constants
DEFAULT_ACT_STEPS == 5

VARIABLES
  entry,            \* which entry point drives the turn
  variant,          \* which runActPhase generation is in use
  actStepsConfig,   \* config.act.steps (0: unset)
  pc,               \* position of the orchestrating task
  resolvedPlan,     \* latest accepted plan partial (NoPlan: undefined)
  anyParsed,        \* ghost: some plan partial parsed against PlanSchema
  plan,             \* the working plan handed to the Act phase
  planQueue,        \* runActPhase: planQueue
  previousActions,  \* runActPhase: previousActions (= collectedActions)
  iterationCount,   \* runActPhase: iterationCount
  apc,              \* position of the Act stream runner
  currentStep,      \* runActPhase: currentStep
  fs,               \* fullStream of the Act call in flight
  col,              \* collector (partialCollector / textCollector)
  fullText,         \* textCollector: fullText is non-empty
  lastAction,       \* runActPhase: lastAction
  streamError,      \* runActPhase: streamError
  partialsSeen,     \* ghost: the plan collector has read some partial
  nextUid,          \* ghost: identity given to the next inserted step
  added,            \* ghost: number of steps inserted so far
  iterLog,          \* ghost: one entry per started iteration
  planCalls,        \* model calls issued by the Plan phase
  actCalls,         \* model calls issued by the Act phase
  respCalls,        \* model calls issued by the Response phase
  inflight,         \* Act model calls whose stream or collector is open
  failure,          \* why the orchestrating task raised ("none": it did not)
  includeReasoning, \* stream(): reasoning_effort is present in the request
  toolChoiceAbsent, \* ghost: the unavailable tool tool_choice names ("none")
  mergeError,       \* tool named in the error mergeTools raised ("none")
  clientToolNames,  \* tools of the Act calls that signal external execution
  timer,            \* stream(): phase whose Promise.race timeout is pending
  hung,             \* Plan / Response call whose stream will never complete
  planSignal,       \* stream(): planCompletePromise
  actSignal,        \* stream(): actCompletePromise
  reasoningComplete,\* stream(): reasoningCompletePromise is resolved
  finishReason,     \* stream(): finishReasonPromise ("pending": unresolved)
  usage,            \* stream(): usagePromise ("pending" or "resolved")
  rpc,              \* stream(): position of the reasoningStream generator
  rIdx,             \* stream(): blocks the generator yielded in its loop
  reasoningBlocks,  \* ghost: the blocks reasoningStream yielded, in order
  tpc,              \* stream(): position of the textStream generator
  textChunks,       \* stream(): chunks textStream yielded
  outcome,          \* run(): state of the returned promise
  respFailed,       \* ghost: the Response model call failed
  mergeInput,       \* mergeTools called on its own: the options passed
  mergeOutput,      \* mergeTools called on its own: its result
  agentStream,      \* controller: what agent.stream(payload) hands back
  res,              \* controller: the HTTP response object
  handler,          \* controller: position of handleStreamingResponse
  toolConfig,       \* PlanActAgent: config.plan.tools and config.act.tools
  issued,           \* ghost: the model calls issued, with their tool maps
  heap,             \* two runs: the arrays allocated so far
  runs,             \* two runs: the locals of each orchestration run
  phaseArgs,        \* runResponsePhase / formatReasoningDetails: arguments
  responsePrompt,   \* runResponsePhase: what the model call is handed
  reasoningDetails, \* formatReasoningDetails: its result
  mcp,              \* tools module: MCP cache, init promise and callers
  manager           \* MCPClientManager: fields, initialize() and close()

sideVars == <<phaseArgs, responsePrompt, reasoningDetails, mcp, manager>>

coreVars == <<sideVars, mergeInput, mergeOutput, agentStream, res, handler, toolConfig, issued, heap, runs, entry, variant, actStepsConfig, pc, resolvedPlan, anyParsed, plan,
              planQueue, previousActions, iterationCount, apc, currentStep, fs,
              col, fullText, lastAction, streamError, partialsSeen, nextUid,
              added, iterLog, planCalls, actCalls, respCalls, inflight, failure>>

adapterVars == <<includeReasoning, toolChoiceAbsent, mergeError,
                 clientToolNames, timer, hung, planSignal, actSignal,
                 reasoningComplete, finishReason, usage, rpc, rIdx,
                 reasoningBlocks, tpc, textChunks, outcome, respFailed>>

vars == <<coreVars, adapterVars>>

actVars == <<planQueue, previousActions, iterationCount, apc, currentStep, fs,
             col, fullText, lastAction, streamError, partialsSeen, nextUid,
             added, iterLog, actCalls, inflight>>

cfgVars == <<sideVars, mergeInput, mergeOutput, agentStream, res, handler, toolConfig, issued, heap, runs, entry, variant, actStepsConfig>>

callVars == <<toolConfig, issued, heap, runs>>

\* Everything of a turn: what mergeTools and the controller leave alone.
turnVars == <<entry, variant, actStepsConfig, pc, resolvedPlan, anyParsed,
              plan, actVars, planCalls, respCalls, failure, adapterVars>>

\* Everything the Act stream runner leaves alone.
nonActVars == <<sideVars, mergeInput, mergeOutput, agentStream, res, handler, toolConfig, issued, heap, runs, entry, variant, actStepsConfig, pc, resolvedPlan, anyParsed, plan,
                planCalls, respCalls, failure, adapterVars>>

\* ---------------------------------------------------------------- helpers
Min(a, b) == IF a < b THEN a ELSE b

NoPlan == [set |-> FALSE, steps |-> <<>>]
NoStep == [t |-> 0, c |-> FALSE, u |-> 0]
NoAction ==
  [kind |-> "none", adds |-> <<>>, reason |-> FALSE, tool |-> "none", call |-> 0,
   iter |-> 0]
NoError == [kind |-> "none", tool |-> "none", call |-> 0]

\* A plan step as the model wrote it: t is its title, c tells whether
\* title, instructions and relevantContext are all present.
RawStep(t, c) == [t |-> t, c |-> c]

\* The plan partials of one streaming structured output: the successive
\* prefixes of the final plan, the last step possibly still incomplete.
PlanPrefix(n, lastComplete) ==
  [i \in 1..n |-> RawStep(i, (i < n) \/ lastComplete)]

PlanPartials ==
  {[obj |-> FALSE, hasSteps |-> FALSE, steps |-> <<>>],    \* null / undefined
   [obj |-> TRUE, hasSteps |-> FALSE, steps |-> <<>>]}     \* {}
  \cup {[obj |-> TRUE, hasSteps |-> TRUE, steps |-> PlanPrefix(n, lc)] :
          n \in 0..MaxPlanLen, lc \in BOOLEAN}

\* PlanSchema.safeParse(partial).success
PlanSchemaMutantNoFieldCheck(p) == p.obj /\ p.hasSteps
PlanSchemaParses(p) ==
  p.obj /\ p.hasSteps /\ \A i \in 1..Len(p.steps) : p.steps[i].c

\* get actSteps()
actSteps ==
  IF actStepsConfig = 0 THEN DEFAULT_ACT_STEPS ELSE actStepsConfig

\* const MAX_ACT_ITERATIONS = this.actSteps * 2
MAX_ACT_ITERATIONSMutantNoDouble == actSteps
MAX_ACT_ITERATIONS == actSteps * 2

\* [...plan.steps]: the queue holds the plan's steps; each gets the
\* identity of its position.
QueueOfPlan(steps) ==
  [i \in 1..Len(steps) |-> [t |-> steps[i].t, c |-> steps[i].c, u |-> i]]

\* --------------------------------------------------- Act call environment
\* What an Act call's structured partial output can look like: ao tells
\* whether action and observation are both present, adds is the
\* addPlanSteps value (absent, or a prefix of the list being streamed),
\* reason whether addPlanStepsReason is present.
AddPrefix(n, lastComplete) ==
  [i \in 1..n |-> RawStep(90 + i, (i < n) \/ lastComplete)]

ActPartialShapes ==
  {sh \in [ao : BOOLEAN, n : 0..2, lc : BOOLEAN, r : BOOLEAN] :
     /\ (sh.n = 0) => sh.lc           \* an empty list has no incomplete step
     /\ (~sh.lc) => ~sh.r             \* the reason is streamed after the list
     /\ (~sh.ao) => (sh.n = 1 /\ sh.lc /\ sh.r)}

ActPartials ==
  {[ao |-> ao, hasAdds |-> FALSE, adds |-> <<>>, reason |-> FALSE] :
     ao \in BOOLEAN}
  \cup {[ao |-> sh.ao, hasAdds |-> TRUE, adds |-> AddPrefix(sh.n, sh.lc),
          reason |-> sh.r] : sh \in ActPartialShapes}

\* PlanActAgent.toPlanSteps(candidate)
toPlanSteps(p) ==
  IF ~p.hasAdds THEN <<>>
  ELSE IF \A i \in 1..Len(p.adds) : p.adds[i].c THEN p.adds ELSE <<>>

\* The steps of `additions` as queue elements, with fresh identities.
Fresh(additions, uid) ==
  [i \in 1..Len(additions) |->
     [t |-> additions[i].t, c |-> additions[i].c, u |-> uid + i - 1]]

\* for (index = additions.length - 1; index >= 0; index -= 1)
\*     planQueue.unshift(additions[index]);
UnshiftMutantAppend(queue, steps) == queue \o steps
UnshiftMutantReplace(queue, steps) == steps
UnshiftAll(queue, steps) == steps \o queue

\* An ActionRecord; iter is a ghost field: the iteration that produced it.
ActionRecord(kind, adds, reason, tool, call) ==
  [kind |-> kind, adds |-> adds, reason |-> reason, tool |-> tool, call |-> call,
   iter |-> iterationCount]

\* while (planQueue.length > 0 && iterationCount < MAX_ACT_ITERATIONS)
LoopGuardMutantNoCeiling == Len(planQueue) > 0
LoopGuard == Len(planQueue) > 0 /\ iterationCount < MAX_ACT_ITERATIONS

\* ------------------------------------------------------------ runActPhase
\* The stream runner starts: the text generation returns at once on an
\* empty queue ("Skip act phase entirely").
ActStart ==
  /\ apc = "start"
  /\ apc' = IF variant = "text" /\ Len(planQueue) = 0 THEN "done" ELSE "loop"
  /\ UNCHANGED nonActVars
  /\ UNCHANGED <<planQueue, previousActions, iterationCount, currentStep, fs,
                 col, fullText, lastAction, streamError, partialsSeen, nextUid,
                 added, iterLog, actCalls, inflight>>

\* One turn of the while loop up to the model call: iterationCount++,
\* currentStep = planQueue.shift(), runSingleAction(...).
ActIterStart ==
  /\ apc = "loop"
  /\ LoopGuard
  /\ iterationCount' = iterationCount + 1
  /\ currentStep' = Head(planQueue)
  /\ planQueue' = Tail(planQueue)
  /\ actCalls' = actCalls + 1
  /\ inflight' = inflight + 1
  /\ fs' = "open"
  /\ col' = "open"
  /\ fullText' = FALSE
  /\ lastAction' = NoAction
  /\ streamError' = NoError
  /\ UNCHANGED partialsSeen
  /\ iterLog' = Append(iterLog,
        [step |-> Head(planQueue), base |-> nextUid, ins |-> 0, out |-> "open",
         err |-> NoError, pushed |-> FALSE])
  /\ apc' = "streaming"
  /\ UNCHANGED nonActVars
  /\ UNCHANGED <<previousActions, nextUid, added>>

\* The loop ends: the queue is empty or the ceiling is reached.
ActLoopExit ==
  /\ apc = "loop"
  /\ ~LoopGuard
  /\ apc' = "done"
  /\ UNCHANGED nonActVars
  /\ UNCHANGED <<planQueue, previousActions, iterationCount, currentStep, fs,
                 col, fullText, lastAction, streamError, partialsSeen, nextUid,
                 added, iterLog, actCalls, inflight>>

\* if (additions.length) { log with or without reason; unshift loop }
InsertsMutantNeedsReason(additions, reason) == Len(additions) > 0 /\ reason
Inserts(additions, reason) == Len(additions) > 0

\* partialCollector (structured generation) reads one partial output. Any
\* number of partials may arrive in a call; MaxAdded bounds what they insert.
ActPartial ==
  /\ apc = "streaming" /\ variant = "structured" /\ col = "open" /\ fs # "hung"
  /\ \E p \in ActPartials :
       LET additions == IF p.ao THEN Fresh(toPlanSteps(p), nextUid) ELSE <<>>
           n == Len(additions)
       IN /\ added + n <= MaxAdded
          /\ planQueue' = IF Inserts(additions, p.reason)
                          THEN UnshiftAll(planQueue, additions)
                          ELSE planQueue
          /\ lastAction' =
               IF p.ao
               THEN ActionRecord("parsed", additions, n > 0 /\ p.reason, "none", 0)
               ELSE lastAction
          /\ nextUid' = nextUid + n
          /\ added' = added + n
          /\ iterLog' = [iterLog EXCEPT ![Len(iterLog)].ins = @ + n]
  /\ UNCHANGED nonActVars
  /\ UNCHANGED <<previousActions, iterationCount, apc, currentStep, fs, col,
                 fullText, streamError, partialsSeen, actCalls, inflight>>

\* The collector's stream ends. The text collector has accumulated fullText
\* (empty or not) and parses it: any non-empty text yields an action (the
\* regexes fall back to defaults).
ActCollectorEnd ==
  /\ apc = "streaming" /\ col = "open" /\ fs # "hung"
  /\ col' = "done"
  /\ \E text \in BOOLEAN :
       /\ fullText' = (variant = "text" /\ text)
       /\ lastAction' =
            IF variant = "text" /\ text
            THEN ActionRecord("parsed", <<>>, FALSE, "none", 0)
            ELSE lastAction
  /\ UNCHANGED nonActVars
  /\ UNCHANGED <<planQueue, previousActions, iterationCount, apc, currentStep,
                 fs, streamError, partialsSeen, nextUid, added, iterLog,
                 actCalls, inflight>>

\* for await (const chunk of actionStream.fullStream) ends or raises.
\* The text generation's catch block records the error in streamError.
StreamOutcomes == {"ended", "clientErr", "otherErr"}

ActStreamEnd ==
  /\ apc = "streaming" /\ fs = "open"
  /\ \E o \in StreamOutcomes, t \in clientToolNames \cup {"none"} :
       /\ ((o = "clientErr") <=> (t # "none"))
       /\ (o = "clientErr") => variant = "text"
       /\ fs' = o
       /\ streamError' =
            IF variant = "text" /\ o = "clientErr"
            THEN [kind |-> "client", tool |-> t, call |-> iterationCount]
            ELSE IF variant = "text" /\ o = "otherErr"
            THEN [kind |-> "other", tool |-> "none", call |-> 0]
            ELSE streamError
  /\ UNCHANGED nonActVars
  /\ UNCHANGED <<planQueue, previousActions, iterationCount, apc, currentStep,
                 col, fullText, lastAction, partialsSeen, nextUid, added,
                 iterLog, actCalls, inflight>>

\* The Act call's stream never completes: the iteration stays where it is.
ActHang ==
  /\ apc = "streaming" /\ fs = "open"
  /\ fs' = "hung"
  /\ UNCHANGED nonActVars
  /\ UNCHANGED <<planQueue, previousActions, iterationCount, apc, currentStep,
                 col, fullText, lastAction, streamError, partialsSeen, nextUid,
                 added, iterLog, actCalls, inflight>>

\* What the text generation makes of the call once stream and collector
\* are through (lines 885-904).
ResolveActionMutantDropClient(err, la) ==
  IF err.kind = "other" /\ la = NoAction THEN NoAction
  ELSE IF la = NoAction THEN ActionRecord("generic", <<>>, FALSE, "none", 0)
  ELSE la
ResolveAction(err, la) ==
  IF err.kind = "client"
  THEN ActionRecord("client", <<>>, FALSE, err.tool, err.call)
  ELSE IF err.kind = "other" /\ la = NoAction THEN NoAction
  ELSE IF la = NoAction THEN ActionRecord("generic", <<>>, FALSE, "none", 0)
  ELSE la

\* Does the stream runner raise after the call? The structured generation
\* has no catch block: try { ... } finally { await partialCollector }.
RunnerRaisesMutantNever(v, o) == FALSE
RunnerRaises(v, o) == v = "structured" /\ o # "ended"

\* The for-await over fullStream is over and `finally { await collector }`
\* has returned.
IterationSettledMutantNoAwait == fs \in StreamOutcomes
IterationSettled == fs \in StreamOutcomes /\ col = "done"

\* previousActions.push(lastAction)
PushMutantFront(history, record) == <<record>> \o history
Push(history, record) == Append(history, record)

\* `finally { await collector }`, then the record is pushed and the loop
\* goes round (or the error leaves the generator).
ActIterFinish ==
  /\ apc = "streaming" /\ IterationSettled
  /\ inflight' = inflight - 1
  /\ LET la == IF variant = "text" THEN ResolveAction(streamError, lastAction)
               ELSE lastAction
         raises == RunnerRaises(variant, fs)
         push == ~raises /\ la # NoAction
     IN /\ previousActions' = IF push THEN Push(previousActions, la)
                              ELSE previousActions
        /\ iterLog' = [iterLog EXCEPT ![Len(iterLog)].out = fs,
                                      ![Len(iterLog)].err = streamError,
                                      ![Len(iterLog)].pushed = push]
        /\ apc' = IF raises THEN "threw" ELSE "loop"
  \* currentStep, lastAction, streamError and the streams are local to the
  \* loop body: they go out of scope here.
  /\ currentStep' = NoStep /\ fs' = "none" /\ col' = "none"
  /\ fullText' = FALSE /\ lastAction' = NoAction /\ streamError' = NoError
  /\ UNCHANGED partialsSeen
  /\ UNCHANGED nonActVars
  /\ UNCHANGED <<planQueue, iterationCount, nextUid, added, actCalls>>

\* ------------------------------------------------------- PlanActAgent.run
\* Which plan partials the collector keeps. PlanActAgent.run validates
\* against PlanSchema (planCollector); the adapter only looks for a
\* `steps` key (planPartial).
AcceptsPartialMutantKeyOnly(e, p) == p.obj /\ p.hasSteps
AcceptsPartial(e, p) ==
  IF e = "agent" THEN p.obj /\ PlanSchemaParses(p)
  ELSE p.obj /\ p.hasSteps

\* this.runPlanPhase(input, availableTools): the Plan model call.
AgentPlanStart ==
  /\ entry = "agent" /\ pc = "start"
  /\ planCalls' = planCalls + 1
  /\ partialsSeen' = FALSE
  /\ pc' = "plan"
  /\ UNCHANGED <<adapterVars, cfgVars, resolvedPlan, anyParsed, plan,
                 planQueue, previousActions, iterationCount, apc, currentStep,
                 fs, col, fullText, lastAction, streamError, nextUid, added,
                 iterLog, actCalls, respCalls, inflight, failure>>

\* The plan collector reads one partial of experimental_partialOutputStream
\* (any number of them arrive during the call).
PlanPartial ==
  /\ pc = "plan" /\ hung = "none"
  /\ \E p \in PlanPartials :
       /\ resolvedPlan' = IF AcceptsPartial(entry, p)
                          THEN [set |-> TRUE, steps |-> p.steps]
                          ELSE resolvedPlan
       /\ anyParsed' = (anyParsed \/ PlanSchemaParses(p))
  /\ partialsSeen' = TRUE
  /\ UNCHANGED <<adapterVars, cfgVars, pc, plan, planQueue, previousActions,
                 iterationCount, apc, currentStep, fs, col, fullText,
                 lastAction, streamError, nextUid, added, iterLog, planCalls,
                 actCalls, respCalls, inflight, failure>>

\* The Plan call's stream never completes.
PlanHang ==
  /\ pc = "plan" /\ hung = "none"
  /\ hung' = "plan"
  /\ UNCHANGED <<coreVars, includeReasoning, toolChoiceAbsent, mergeError,
                 clientToolNames, timer, planSignal, actSignal,
                 reasoningComplete, finishReason, usage, rpc, rIdx,
                 reasoningBlocks, tpc, textChunks, outcome, respFailed>>

\* const plan = resolvedPlan ?? PlanSchema.parse({ steps: [] })
WorkingPlan(rp) == IF rp.set THEN rp.steps ELSE <<>>

\* The plan stream is drained and the collector awaited; the Act phase is
\* set up from the working plan (runActPhase up to the stream runner).
AgentPlanEnd ==
  /\ entry = "agent" /\ pc = "plan" /\ hung = "none"
  /\ plan' = WorkingPlan(resolvedPlan)
  /\ planQueue' = QueueOfPlan(plan')
  /\ previousActions' = <<>>
  /\ iterationCount' = 0
  /\ nextUid' = Len(plan') + 1
  /\ apc' = "start"
  /\ pc' = "act"
  /\ UNCHANGED <<adapterVars, cfgVars, resolvedPlan, anyParsed, currentStep,
                 fs, col, fullText, lastAction, streamError, partialsSeen,
                 added, iterLog, planCalls, actCalls, respCalls, inflight,
                 failure>>

\* The plan stream raises (provider failure): the pipeline raises.
AgentPlanRaise ==
  /\ entry = "agent" /\ pc = "plan" /\ hung = "none"
  /\ pc' = "failed"
  /\ failure' = "plan"
  /\ UNCHANGED <<adapterVars, cfgVars, resolvedPlan, anyParsed, plan, actVars,
                 planCalls, respCalls>>

\* The Act stream is drained: actions = actStream.collectedActions and
\* this.runResponsePhase(input, plan, actions) issues the Response call.
AgentActDone ==
  /\ entry = "agent" /\ pc = "act" /\ apc = "done"
  /\ respCalls' = respCalls + 1
  /\ pc' = "response"
  /\ UNCHANGED <<adapterVars, cfgVars, resolvedPlan, anyParsed, plan, actVars,
                 planCalls, failure>>

\* The Act stream raised: the pipeline raises.
AgentActThrew ==
  /\ entry = "agent" /\ pc = "act" /\ apc = "threw"
  /\ pc' = "failed"
  /\ failure' = "act"
  /\ UNCHANGED <<adapterVars, cfgVars, resolvedPlan, anyParsed, plan, actVars,
                 planCalls, respCalls>>

\* The Response stream is drained, or raises.
AgentRespEnd ==
  /\ entry = "agent" /\ pc = "response" /\ hung = "none"
  /\ \E ok \in BOOLEAN :
       /\ pc' = IF ok THEN "done" ELSE "failed"
       /\ failure' = IF ok THEN failure ELSE "response"
  /\ UNCHANGED <<adapterVars, cfgVars, resolvedPlan, anyParsed, plan, actVars,
                 planCalls, respCalls>>

\* ------------------------------------------------------------- mergeTools
\* Tool names of the model: a built-in tool, a name nobody declares, and a
\* member every JavaScript object inherits from Object.prototype.
DefaultToolset == <<"calculator", "getCurrentTime", "generateUUID">>
ProtoKeys == {"constructor"}

Range(seq) == {seq[i] : i \in 1..Len(seq)}

\* `obj[key]` is truthy / `key in obj`, for an object whose own keys are
\* `keys` and whose values are all truthy: inherited members count.
HasMemberMutantOwnKeys(keys, key) == key \in keys
HasMember(keys, key) == key \in keys \cup ProtoKeys

\* A declared tool: its name and whether validateJsonSchema accepts its
\* parameter schema.
Declared(name, valid) == [name |-> name, valid |-> valid]

\* convertOpenAITools: the names of the tools that convert, in order.
convertOpenAIToolsMutantKeepInvalid(tools) ==
  [i \in 1..Len(tools) |-> tools[i].name]
convertOpenAITools(tools) ==
  LET Valid(t) == t.valid
      kept == SelectSeq(tools, Valid)
  IN [i \in 1..Len(kept) |-> kept[i].name]

\* The keys of an object filled by assigning `names` in order.
RECURSIVE KeysInOrder(_)
KeysInOrder(names) ==
  IF names = <<>> THEN <<>>
  ELSE LET front == KeysInOrder(SubSeq(names, 1, Len(names) - 1))
           last == names[Len(names)]
       IN IF last \in Range(front) THEN front ELSE Append(front, last)

\* getActiveTools(enabledTools): the keys of the returned ToolSet.
getActiveTools(enabled) ==
  IF ~enabled.set \/ Len(enabled.names) = 0 THEN DefaultToolset
  ELSE LET Known(n) == HasMember(Range(DefaultToolset), n)
       IN KeysInOrder(SelectSeq(enabled.names, Known))

\* shouldIncludeTool(toolName)
shouldIncludeToolMutantIgnoreName(choice, toolName) == choice.type # "none"
shouldIncludeToolMutantRequiredNone(choice, toolName) ==
  CASE choice.type \in {"none", "required"} -> FALSE
    [] choice.type = "function" -> toolName = choice.name
    [] OTHER -> TRUE
shouldIncludeTool(choice, toolName) ==
  CASE choice.type \in {"unset", "auto"} -> TRUE
    [] choice.type = "none" -> FALSE
    [] choice.type = "required" -> TRUE
    [] choice.type = "function" -> toolName = choice.name
    [] OTHER -> TRUE

\* if (result.toolSet[toolName]) { ...; continue; } in the built-in loop.
SkipsBuiltinMutantNever(keys, toolName) == FALSE
SkipsBuiltin(keys, toolName) == HasMember(keys, toolName)

\* mergeTools(options): error is the tool named in the error raised
\* ("none": the merge returned). metadata is the key set of the metadata
\* Map, filled by the same two loops. owner tells which loop made the last
\* assignment to result.toolSet[name]; the built-in loop runs second.
mergeTools(req) ==
  LET Include(n) == shouldIncludeTool(req.choice, n)
      clientNames == SelectSeq(convertOpenAITools(req.tools), Include)
      FreeAndIncluded(n) == ~SkipsBuiltin(Range(clientNames), n) /\ Include(n)
      builtinNames == SelectSeq(getActiveTools(req.enabled), FreeAndIncluded)
      toolSet == Range(clientNames) \cup Range(builtinNames)
  IN [toolSet |-> toolSet,
      metadata |-> Range(clientNames) \cup Range(builtinNames),
      owner |-> [n \in toolSet |-> IF n \in Range(builtinNames) THEN "builtin"
                                   ELSE "client"],
      clientToolNames |-> clientNames,
      builtinToolNames |-> builtinNames,
      error |-> IF req.choice.type = "function"
                   /\ ~HasMember(toolSet, req.choice.name)
                THEN req.choice.name ELSE "none"]

\* Requests the adapter is driven with.
NoChoice == [type |-> "unset", name |-> "none"]
Specific(name) == [type |-> "function", name |-> name]
AllBuiltins == [set |-> FALSE, names |-> <<>>]
Request(tools, enabled, choice) ==
  [tools |-> tools, enabled |-> enabled, choice |-> choice]

AdapterRequests ==
  {Request(<<>>, AllBuiltins, NoChoice),
   Request(<<Declared("lookup", TRUE)>>, AllBuiltins, [type |-> "auto", name |-> "none"]),
   Request(<<Declared("lookup", TRUE)>>, AllBuiltins, Specific("lookup")),
   Request(<<>>, AllBuiltins, Specific("calculator")),
   Request(<<>>, AllBuiltins, Specific("ghost")),
   Request(<<Declared("broken", FALSE)>>, AllBuiltins, Specific("broken")),
   Request(<<>>, [set |-> TRUE, names |-> <<"getCurrentTime">>], Specific("calculator")),
   Request(<<>>, AllBuiltins, Specific("constructor"))}

\* mergeTools called on its own, over every combination of declared tools
\* (up to MaxDeclared of them, valid or not, colliding with a built-in or
\* not, possibly repeated), enable-list and tool choice.
DeclaredNames == {"lookup", "calculator"}
DeclaredTools == [name : DeclaredNames, valid : BOOLEAN]
DeclaredLists ==
  UNION {[1..n -> DeclaredTools] : n \in 0..MaxDeclared}
EnableLists ==
  {AllBuiltins,
   [set |-> TRUE, names |-> <<>>],
   [set |-> TRUE, names |-> <<"calculator">>],
   [set |-> TRUE, names |-> <<"getCurrentTime", "ghost">>],
   [set |-> TRUE, names |-> <<"constructor">>]}
ToolChoices ==
  {NoChoice} \cup [type : {"auto", "none", "required"}, name : {"none"}]
  \cup {Specific(n) : n \in {"lookup", "calculator", "getCurrentTime", "ghost",
                             "constructor"}}
MergeRequests ==
  {Request(t, e, c) : t \in DeclaredLists, e \in EnableLists, c \in ToolChoices}

NotMerged == [called |-> FALSE]

\* mergeTools(options) runs to its return or to its throw.
MergeCall ==
  /\ ~mergeOutput.called
  /\ mergeOutput' = [called |-> TRUE, out |-> mergeTools(mergeInput)]
  /\ UNCHANGED <<sideVars, mergeInput, agentStream, res, handler, callVars, turnVars>>

\* ------------------------------------------ CompletionsController (SSE)
\* handleStreamingResponse exists in two generations: the later one reads
\* the usage of the stream and attaches it to the final chunk
\* (generation "usage"), the earlier one does not (generation "plain").
Undefined == 0 - 1

\* One SSE payload as the client parses it; a delta is its set of
\* key/value pairs.
NoUsage == [present |-> FALSE]
chunkEvent(delta, finish_reason, eventUsage) ==
  [type |-> "chunk", delta |-> delta, finish_reason |-> finish_reason,
   usage |-> eventUsage]
initialChunk == chunkEvent({<<"role", "assistant">>}, "null", NoUsage)
errorChunkMutantStop == chunkEvent({}, "stop", NoUsage)
errorChunk == chunkEvent({}, "error", NoUsage)
Done == [type |-> "done"]

mapUsageToOpenAI(u) ==
  [present |-> TRUE,
   prompt_tokens |-> IF u.inputTokens = Undefined THEN 0 ELSE u.inputTokens,
   completion_tokens |->
     IF u.outputTokens = Undefined THEN 0 ELSE u.outputTokens]

\* The final chunk of a stream that ended normally. fr and u are what the
\* two promises settled to; a rejection was turned into undefined.
finalChunk(generation, fr, u) ==
  chunkEvent({}, IF fr \in {"undefined", "rejected"} THEN "stop" ELSE fr,
             IF generation = "usage" /\ u.kind = "resolved"
             THEN mapUsageToOpenAI(u.value) ELSE NoUsage)

writeSseEvent(r, event) == [r EXCEPT !.writes = Append(@, event)]

closeStream(r) ==
  IF r.writableEnded THEN r
  ELSE [r EXCEPT !.writes = Append(@, Done), !.writableEnded = TRUE]

\* What agent.stream() can hand back: it throws, or it returns a text
\* stream that yields some deltas and then ends or raises, a finishReason
\* promise and possibly a usage promise.
AgentStreams ==
  LET deltas == {"", "Hello", " world"}
      usages == {[inputTokens |-> 4, outputTokens |-> 6],
                 [inputTokens |-> Undefined, outputTokens |-> 6]}
  IN [throws : BOOLEAN,
      textStream : UNION {[1..n -> deltas] : n \in 0..MaxDeltas},
      ending : {"end", "raise"},
      finishReason : {"stop", "length", "undefined", "rejected"},
      usage : {[kind |-> "absent"], [kind |-> "rejected"],
               [kind |-> "undefined"]}
              \cup {[kind |-> "resolved", value |-> v] : v \in usages}]

NoResponse == [headers |-> FALSE, writes |-> <<>>, writableEnded |-> FALSE]

\* No streaming request is being served.
SseIdle ==
  /\ agentStream = [throws |-> FALSE, textStream |-> <<>>, ending |-> "end",
                    finishReason |-> "stop", usage |-> [kind |-> "absent"]]
  /\ res = NoResponse
  /\ handler = [pc |-> "none", generation |-> "usage", read |-> 0]

\* handleStreamingResponse up to the start of its async block: headers,
\* agent.stream(payload), the initial chunk.
SseBegin ==
  /\ handler.pc = "start"
  /\ IF agentStream.throws
     THEN /\ res' = [res EXCEPT !.headers = TRUE]
          /\ handler' = [handler EXCEPT !.pc = "threw"]
     ELSE /\ res' = writeSseEvent([res EXCEPT !.headers = TRUE], initialChunk)
          /\ handler' = [handler EXCEPT !.pc = "iterating"]
  /\ UNCHANGED <<sideVars, mergeInput, mergeOutput, agentStream, callVars, turnVars>>

\* for await (const delta of stream.textStream): one delta.
SseDelta ==
  /\ handler.pc = "iterating" /\ handler.read < Len(agentStream.textStream)
  /\ LET delta == agentStream.textStream[handler.read + 1]
     IN res' = IF delta = "" THEN res
               ELSE writeSseEvent(res, chunkEvent({<<"content", delta>>},
                                                  "null", NoUsage))
  /\ handler' = [handler EXCEPT !.read = @ + 1]
  /\ UNCHANGED <<sideVars, mergeInput, mergeOutput, agentStream, callVars, turnVars>>

\* The text stream ends: the handler goes on to await the promises.
SseStreamEnd ==
  /\ handler.pc = "iterating" /\ handler.read = Len(agentStream.textStream)
  /\ agentStream.ending = "end"
  /\ handler' = [handler EXCEPT !.pc = "settling"]
  /\ UNCHANGED <<sideVars, mergeInput, mergeOutput, agentStream, res, callVars, turnVars>>

\* The promises have settled: final chunk, then finally { closeStream }.
SseFinal ==
  /\ handler.pc = "settling"
  /\ res' = closeStream(writeSseEvent(res,
              finalChunk(handler.generation, agentStream.finishReason,
                         agentStream.usage)))
  /\ handler' = [handler EXCEPT !.pc = "done"]
  /\ UNCHANGED <<sideVars, mergeInput, mergeOutput, agentStream, callVars, turnVars>>

\* The text stream raises: catch { error chunk } finally { closeStream }.
SseStreamRaise ==
  /\ handler.pc = "iterating" /\ handler.read = Len(agentStream.textStream)
  /\ agentStream.ending = "raise"
  /\ res' = closeStream(writeSseEvent(res, errorChunk))
  /\ handler' = [handler EXCEPT !.pc = "done"]
  /\ UNCHANGED <<sideVars, mergeInput, mergeOutput, agentStream, callVars, turnVars>>

\* -------------------------------------- tools attached to model calls
\* A tool map is the set of its keys; config.plan.tools and
\* config.act.tools may be left unset.
Unset == [set |-> FALSE]
ToolMaps == {Unset} \cup {[set |-> TRUE, tools |-> t] : t \in SUBSET DeclaredNames}

\* get planTools: the current generation ignores the configuration, the
\* earlier one returns config.plan?.tools || DEFAULT_PLAN_TOOLS.
planToolsMutantFromConfig(generation, config) ==
  IF config.plan.set THEN config.plan.tools ELSE {}
planTools(generation, config) ==
  IF generation = "structured" /\ config.plan.set
  THEN config.plan.tools ELSE {}
\* get actTools: config.act?.tools || DEFAULT_ACT_TOOLS.
actTools(config) == IF config.act.set THEN config.act.tools ELSE {}

ModelCall(phase, tools) == [phase |-> phase, tools |-> tools]
LastPhase == IF issued = <<>> THEN "none" ELSE issued[Len(issued)].phase
CallsIdle == toolConfig = [plan |-> Unset, act |-> Unset] /\ issued = <<>>

\* runPlanPhase: new Agent({...}) and its stream() call. The earlier
\* generation passes tools: this.planTools, the current one passes none.
IssuePlan ==
  /\ entry = "calls" /\ issued = <<>>
  /\ issued' = <<ModelCall("plan", planTools(variant, toolConfig))>>
  /\ UNCHANGED <<sideVars, mergeInput, mergeOutput, agentStream, res, handler,
                 toolConfig, heap, runs, turnVars>>

\* runActPhase: one call per executed step, each with tools: this.actTools.
IssueAct ==
  /\ LastPhase \in {"plan", "act"}
  /\ Len(issued) <= MaxActSteps
  /\ issued' = Append(issued, ModelCall("act", actTools(toolConfig)))
  /\ UNCHANGED <<sideVars, mergeInput, mergeOutput, agentStream, res, handler,
                 toolConfig, heap, runs, turnVars>>

\* runResponsePhase: new Agent({model, system, stopWhen}), no tools.
IssueResponse ==
  /\ LastPhase \in {"plan", "act"}
  /\ issued' = Append(issued, ModelCall("response", {}))
  /\ UNCHANGED <<sideVars, mergeInput, mergeOutput, agentStream, res, handler,
                 toolConfig, heap, runs, turnVars>>

\* ------------------------------------------- two runs on one adapter
\* Every run() / stream() call builds its own PlanActAgent and its own
\* promises; runActPhase allocates planQueue and previousActions anew. The
\* heap holds the arrays, a run holds references to them. Steps and
\* records carry the run they belong to (ghost).
RunIds == {1, 2}
NoRef == 0
EmptyHeap ==
  [cells |-> [a \in 1..(2 * Cardinality(RunIds)) |-> <<>>], next |-> 1]

\* The address a new array gets. (Mutant: planQueue and previousActions
\* are two arrays shared by every run.)
allocMutantShared(h, which) == IF which = "planQueue" THEN 1 ELSE 2
alloc(h, which) == h.next
store(h, a, contents) ==
  [cells |-> [h.cells EXCEPT ![a] = contents],
   next |-> IF a >= h.next THEN a + 1 ELSE h.next]

PlanOfRun(r, n) == [i \in 1..n |-> [owner |-> r, idx |-> i]]
NoRun ==
  [pc |-> "none", plan |-> <<>>, planQueue |-> NoRef,
   previousActions |-> NoRef, iterationCount |-> 0,
   reasoning |-> <<>>, context |-> <<>>]
RunsIdle == heap = EmptyHeap /\ runs = [r \in RunIds |-> NoRun]
SidesIdle == SseIdle /\ CallsIdle /\ RunsIdle

\* Everything the runs of this section leave alone.
nonRunVars == <<sideVars, mergeInput, mergeOutput, agentStream, res, handler,
                toolConfig, issued, turnVars>>

\* Plan phase of a run: the plan is resolved.
RunPlan ==
  \E r \in RunIds :
    /\ runs[r].pc = "plan"
    /\ \E n \in 0..MaxPlanLen :
         runs' = [runs EXCEPT ![r].plan = PlanOfRun(r, n), ![r].pc = "act"]
    /\ UNCHANGED <<heap, nonRunVars>>

\* runActPhase: const planQueue = [...plan.steps]; const previousActions = [].
RunActStart ==
  \E r \in RunIds :
    /\ runs[r].pc = "act"
    /\ LET q == alloc(heap, "planQueue")
           h1 == store(heap, q, runs[r].plan)
           p == alloc(h1, "previousActions")
       IN /\ heap' = store(h1, p, <<>>)
          /\ runs' = [runs EXCEPT ![r].planQueue = q,
                                  ![r].previousActions = p, ![r].pc = "loop"]
    /\ UNCHANGED nonRunVars

\* One iteration: planQueue.shift(), the model call, previousActions.push.
RunActIter ==
  \E r \in RunIds :
    /\ runs[r].pc = "loop"
    /\ Len(heap.cells[runs[r].planQueue]) > 0
    /\ runs[r].iterationCount < MAX_ACT_ITERATIONS
    /\ LET q == runs[r].planQueue
           p == runs[r].previousActions
           step == Head(heap.cells[q])
       IN heap' = [heap EXCEPT
                     !.cells[q] = Tail(@),
                     !.cells[p] = Append(heap.cells[p],
                                         [owner |-> r, step |-> step])]
    /\ runs' = [runs EXCEPT ![r].iterationCount = @ + 1]
    /\ UNCHANGED nonRunVars

\* The loop ends: resolvePlanComplete(plan), resolveActComplete(actions)
\* feed the reasoning channel of this run.
RunActDone ==
  \E r \in RunIds :
    /\ runs[r].pc = "loop"
    /\ ~(/\ Len(heap.cells[runs[r].planQueue]) > 0
         /\ runs[r].iterationCount < MAX_ACT_ITERATIONS)
    /\ runs' = [runs EXCEPT
                  ![r].reasoning =
                    runs[r].plan \o heap.cells[runs[r].previousActions],
                  ![r].pc = "response"]
    /\ UNCHANGED <<heap, nonRunVars>>

\* runResponsePhase(messages, plan, actions).
RunResponse ==
  \E r \in RunIds :
    /\ runs[r].pc = "response"
    /\ runs' = [runs EXCEPT
                  ![r].context =
                    runs[r].plan \o heap.cells[runs[r].previousActions],
                  ![r].pc = "done"]
    /\ UNCHANGED <<heap, nonRunVars>>

\* Ghost: does tool_choice name a tool that is neither a declared tool with
\* a valid schema nor one of the built-in tools the request enables?
ChoiceAbsent(req) ==
  LET declared == {req.tools[i].name : i \in {j \in 1..Len(req.tools) : req.tools[j].valid}}
      enabled == IF ~req.enabled.set \/ Len(req.enabled.names) = 0
                 THEN Range(DefaultToolset)
                 ELSE Range(req.enabled.names) \cap Range(DefaultToolset)
  IN req.choice.type = "function" /\ req.choice.name \notin declared \cup enabled

\* ------------------------------------------------ runResponsePhase alone
\* A request message keeps its role and its position in the request. A
\* plan step and an action record are told apart by their position.
Roles == {"user", "assistant", "system", "tool"}
InputMessage(role, pos) == [from |-> "input", role |-> role, pos |-> pos]
Inputs ==
  UNION {{[i \in 1..n |-> InputMessage(r[i], i)] : r \in [1..n -> Roles]} :
           n \in 0..MaxMessages}
Titled(n) == [i \in 1..n |-> [title |-> i]]
Acted(n) == [i \in 1..n |-> [action |-> i]]
NotCalled == [called |-> FALSE]

\* input.slice(-1)
SliceLast(input) ==
  IF Len(input) = 0 THEN <<>> ELSE <<input[Len(input)]>>
NotSystem(msg) == msg.role # "system"
\* plan.steps.map(planStepToMessage), actStepsToMessage(actions)
planStepToMessage(generation, step) ==
  [from |-> "plan", step |-> step,
   role |-> IF generation = "structured" THEN "system" ELSE "user"]
actStepToMessage(record) ==
  [from |-> "action", role |-> "assistant", record |-> record]

\* runResponsePhase(input, plan, actions): what responseAgent.stream() is
\* handed. The earlier generation lays Plan and actions out as prompt
\* messages after the last request message; the current one writes them
\* into the system message and drops a last message of role system.
runResponsePhase(generation, input, steps, actions) ==
  IF generation = "structured"
  THEN LET planMessages ==
             [i \in 1..Len(steps) |-> planStepToMessage(generation, steps[i])]
           actionMessages ==
             [i \in 1..Len(actions) |-> actStepToMessage(actions[i])]
           contextPrelude ==
             IF Len(planMessages) > 0 \/ Len(actionMessages) > 0
             THEN <<[from |-> "prelude", role |-> "system"]>> ELSE <<>>
           finalInstruction == [from |-> "final", role |-> "system"]
       IN [system |-> [steps |-> <<>>, actions |-> <<>>],
           prompt |-> SliceLast(input) \o contextPrelude \o planMessages
                        \o actionMessages \o <<finalInstruction>>]
  ELSE [system |-> [steps |-> steps, actions |-> actions],
        prompt |-> SelectSeq(SliceLast(input), NotSystem)]

\* -------------------------------------------------- formatReasoningDetails
\* details.push(...) for each item, with `index: index++` and the id built
\* from the same counter.
RECURSIVE PushDetails(_, _, _, _)
PushDetails(details, items, type, idPrefix) ==
  IF items = <<>> THEN details
  ELSE LET index == Len(details)
       IN PushDetails(Append(details,
                             [type |-> type, id |-> <<idPrefix, index>>,
                              index |-> index, raw |-> Head(items)]),
                      Tail(items), type, idPrefix)
\* As PushDetails, with a counter of its own for each kind of entry.
RECURSIVE PushDetailsMutantOwnCounter(_, _, _, _, _)
PushDetailsMutantOwnCounter(details, index, items, type, idPrefix) ==
  IF items = <<>> THEN details
  ELSE PushDetailsMutantOwnCounter(
         Append(details, [type |-> type, id |-> <<idPrefix, index>>,
                          index |-> index, raw |-> Head(items)]),
         index + 1, Tail(items), type, idPrefix)
formatReasoningDetailsMutantRestart(steps, actions) ==
  PushDetailsMutantOwnCounter(
    PushDetailsMutantOwnCounter(<<>>, 0, steps, "plan.step", "plan-step"),
    0, actions, "action.observation", "action")
formatReasoningDetails(steps, actions) ==
  PushDetails(PushDetails(<<>>, steps, "plan.step", "plan-step"),
              actions, "action.observation", "action")

FormatIdle ==
  /\ phaseArgs = [input |-> <<>>, steps |-> <<>>, actions |-> <<>>]
  /\ responsePrompt = NotCalled /\ reasoningDetails = NotCalled

\* Everything the sections below leave alone.
nonSideVars == <<mergeInput, mergeOutput, agentStream, res, handler,
                 callVars, turnVars>>

\* The Response phase is entered with the request messages, the plan and
\* the action history of the turn.
ResponseCall ==
  /\ entry = "format" /\ ~responsePrompt.called
  /\ responsePrompt' =
       [called |-> TRUE,
        call |-> runResponsePhase(variant, phaseArgs.input, phaseArgs.steps,
                                  phaseArgs.actions)]
  /\ UNCHANGED <<nonSideVars, phaseArgs, reasoningDetails, mcp, manager>>

\* run(): const reasoningDetails = formatReasoningDetails(plan, actions).
FormatCall ==
  /\ entry = "format" /\ ~reasoningDetails.called
  /\ reasoningDetails' =
       [called |-> TRUE,
        details |-> formatReasoningDetails(phaseArgs.steps, phaseArgs.actions)]
  /\ UNCHANGED <<nonSideVars, phaseArgs, responsePrompt, mcp, manager>>

\* ------------------------------------------------- initializeMCPTools
\* Module state mcpToolsCache and mcpToolsInitPromise, the promise that
\* getMCPTools() returned, and the callers of initializeMCPTools with the
\* promise each of them got back.
CallerIds == {1, 2, 3}
McpToolSets == {{}, {"mcp_search"}}
NullCache == [null |-> TRUE]
Cached(tools) == [null |-> FALSE, tools |-> tools]
IdleCaller == [pc |-> "idle"]
Fulfilled(tools) == [pc |-> "fulfilled", tools |-> tools]
McpStart ==
  [cache |-> NullCache, initPromise |-> FALSE, load |-> [state |-> "none"],
   callers |-> [c \in CallerIds |-> IdleCaller]]
McpIdle == mcp = McpStart

\* A call of initializeMCPTools up to its first await or its return.
McpCall ==
  \E c \in CallerIds :
    /\ entry = "mcp" /\ mcp.callers[c].pc = "idle"
    /\ mcp' =
         IF ~mcp.cache.null
         THEN [mcp EXCEPT !.callers[c] = Fulfilled(mcp.cache.tools)]
         ELSE IF mcp.initPromise
         THEN [mcp EXCEPT !.callers[c] = [pc |-> "following"]]
         ELSE [mcp EXCEPT !.initPromise = TRUE,
                          !.load = [state |-> "pending"],
                          !.callers[c] = [pc |-> "awaiting"]]
    /\ UNCHANGED <<nonSideVars, phaseArgs, responsePrompt, reasoningDetails,
                   manager>>

\* The promise of getMCPTools() settles.
McpLoadSettle ==
  /\ mcp.load.state = "pending"
  /\ \E settled \in {[state |-> "rejected"]}
                      \cup {[state |-> "fulfilled", tools |-> t] :
                              t \in McpToolSets} :
       mcp' = [mcp EXCEPT !.load = settled]
  /\ UNCHANGED <<nonSideVars, phaseArgs, responsePrompt, reasoningDetails,
                 manager>>

\* The caller that started the initialization resumes after its await:
\* try, catch and finally run without a further await.
McpResume ==
  \E c \in CallerIds :
    /\ mcp.callers[c].pc = "awaiting"
    /\ mcp.load.state \in {"fulfilled", "rejected"}
    /\ LET tools == IF mcp.load.state = "fulfilled"
                    THEN mcp.load.tools ELSE {}
       IN mcp' = [mcp EXCEPT !.cache = Cached(tools),
                             !.initPromise = FALSE,
                             !.callers[c] = Fulfilled(tools)]
    /\ UNCHANGED <<nonSideVars, phaseArgs, responsePrompt, reasoningDetails,
                   manager>>

\* A caller that returned mcpToolsInitPromise: its promise takes the
\* outcome of that promise. The reaction of the awaiting caller was
\* registered first and has run by then.
McpFollow ==
  \E c \in CallerIds :
    /\ mcp.callers[c].pc = "following"
    /\ mcp.load.state \in {"fulfilled", "rejected"}
    /\ \A d \in CallerIds : mcp.callers[d].pc # "awaiting"
    /\ mcp' = [mcp EXCEPT !.callers[c] =
                 IF mcp.load.state = "fulfilled"
                 THEN Fulfilled(mcp.load.tools) ELSE [pc |-> "rejected"]]
    /\ UNCHANGED <<nonSideVars, phaseArgs, responsePrompt, reasoningDetails,
                   manager>>

\* ---------------------------------------------------- MCPClientManager
\* The singleton's fields, the initialize() calls, the doInitialize() run
\* each of them may have started, and one close() call.
ServerIds == {1, 2}
InitCallIds == {1, 2}
NoPromise == 0
NoInitCall == [pc |-> "idle", on |-> NoPromise]
NoInitRun == [state |-> "none", pending |-> {}]
ManagerStart(configs) ==
  [clients |-> {}, initialized |-> FALSE, initializationPromise |-> NoPromise,
   configs |-> configs,
   inits |-> [i \in InitCallIds |-> NoInitCall],
   initRuns |-> [i \in InitCallIds |-> NoInitRun],
   close |-> [pc |-> "idle", closing |-> {}],
   late |-> FALSE]
ManagerIdle == manager = ManagerStart({})

\* initialize() up to its return or its await. doInitialize() starts one
\* initializeClient per configuration before it first awaits.
ManagerInitialize ==
  \E i \in InitCallIds :
    /\ entry = "manager" /\ manager.inits[i].pc = "idle"
    /\ manager' =
         IF manager.initialized
         THEN [manager EXCEPT !.inits[i].pc = "done",
                 !.late = @ \/ manager.close.pc = "resolved"]
         ELSE IF manager.initializationPromise # NoPromise
         THEN [manager EXCEPT
                 !.inits[i] = [pc |-> "following",
                               on |-> manager.initializationPromise],
                 !.late = @ \/ manager.close.pc = "resolved"]
         ELSE [manager EXCEPT
                 !.initializationPromise = i,
                 !.initRuns[i] = [state |-> "running",
                                  pending |-> manager.configs],
                 !.inits[i] = [pc |-> "awaiting", on |-> i],
                 !.late = @ \/ manager.close.pc = "resolved"]
    /\ UNCHANGED <<nonSideVars, phaseArgs, responsePrompt, reasoningDetails,
                   mcp>>

\* initializeClient(config) comes to its end: this.clients.set(config.id,
\* ...) after the two awaits, or the rethrown error.
ManagerClientSettle ==
  \E r \in InitCallIds :
    \E s \in manager.initRuns[r].pending :
      \E connected \in BOOLEAN :
        /\ manager.initRuns[r].state = "running"
        /\ manager' =
             [manager EXCEPT
                !.clients = IF connected THEN @ \cup {s} ELSE @,
                !.initRuns[r].pending = @ \ {s}]
        /\ UNCHANGED <<nonSideVars, phaseArgs, responsePrompt,
                       reasoningDetails, mcp>>

\* doInitialize(): Promise.allSettled has every result; the run's promise
\* is fulfilled.
ManagerRunSettle ==
  \E r \in InitCallIds :
    /\ manager.initRuns[r].state = "running"
    /\ manager.initRuns[r].pending = {}
    /\ manager' = [manager EXCEPT !.initRuns[r].state = "fulfilled"]
    /\ UNCHANGED <<nonSideVars, phaseArgs, responsePrompt, reasoningDetails,
                   mcp>>

\* initialize() after `await this.initializationPromise`.
ManagerInitResume ==
  \E i \in InitCallIds :
    /\ manager.inits[i].pc = "awaiting"
    /\ manager.initRuns[manager.inits[i].on].state = "fulfilled"
    /\ manager' = [manager EXCEPT !.initialized = TRUE,
                                  !.initializationPromise = NoPromise,
                                  !.inits[i].pc = "done"]
    /\ UNCHANGED <<nonSideVars, phaseArgs, responsePrompt, reasoningDetails,
                   mcp>>

\* An initialize() call that returned the promise of a run in progress.
ManagerInitFollow ==
  \E i \in InitCallIds :
    /\ manager.inits[i].pc = "following"
    /\ manager.initRuns[manager.inits[i].on].state = "fulfilled"
    /\ manager' = [manager EXCEPT !.inits[i].pc = "done"]
    /\ UNCHANGED <<nonSideVars, phaseArgs, responsePrompt, reasoningDetails,
                   mcp>>

\* close() up to `await Promise.allSettled(closePromises)`: the clients
\* held at this moment are being closed.
ManagerCloseStart ==
  /\ entry = "manager" /\ manager.close.pc = "idle"
  /\ manager' = [manager EXCEPT
                   !.close = [pc |-> "closing", closing |-> manager.clients]]
  /\ UNCHANGED <<nonSideVars, phaseArgs, responsePrompt, reasoningDetails,
                 mcp>>

\* close() after the await: clear(), initialized = false,
\* initializationPromise = null, and the returned promise resolves.
ManagerCloseFinish ==
  /\ manager.close.pc = "closing"
  /\ manager' = [manager EXCEPT !.clients = {},
                                !.initialized = FALSE,
                                !.initializationPromise = NoPromise,
                                !.close.pc = "resolved"]
  /\ UNCHANGED <<nonSideVars, phaseArgs, responsePrompt, reasoningDetails,
                 mcp>>

ExtrasIdle == FormatIdle /\ McpIdle /\ ManagerIdle

\* ------------------------------------------ createPlanActChatAdapter
Resolved(v) == [set |-> TRUE, val |-> v]

\* The orchestrating task raises. In stream() the catch block of
\* executionPromise releases both signals and resolves finishReason to
\* 'error' (a promise already resolved keeps its value); in run() the
\* returned promise rejects.
RaiseMutantNoRelease(why) ==
  /\ pc' = "failed"
  /\ failure' = why
  /\ timer' = "none"
  /\ UNCHANGED <<planSignal, actSignal>>
  /\ finishReason' = IF entry = "stream" /\ finishReason = "pending" THEN "error"
                     ELSE finishReason
  /\ usage' = IF entry = "stream" THEN "resolved" ELSE usage
  /\ outcome' = IF entry = "run" THEN "rejected" ELSE outcome
Raise(why) ==
  /\ pc' = "failed"
  /\ failure' = why
  /\ timer' = "none"
  /\ planSignal' = IF entry = "stream" /\ ~planSignal.set THEN Resolved(<<>>)
                   ELSE planSignal
  /\ actSignal' = IF entry = "stream" /\ ~actSignal.set THEN Resolved(<<>>)
                  ELSE actSignal
  /\ finishReason' = IF entry = "stream" /\ finishReason = "pending" THEN "error"
                     ELSE finishReason
  /\ usage' = IF entry = "stream" THEN "resolved" ELSE usage
  /\ outcome' = IF entry = "run" THEN "rejected" ELSE outcome

\* mergeTools, new PlanActAgent (resolveLanguageModel) and
\* agent.runPlanPhase(messages), which run without suspension.
AdapterSetup ==
  /\ entry \in {"run", "stream"} /\ pc = "start"
  /\ \E req \in AdapterRequests, modelOk \in BOOLEAN :
       LET merged == mergeTools(req)
       IN /\ toolChoiceAbsent' = IF ChoiceAbsent(req) THEN req.choice.name
                                 ELSE "none"
          /\ mergeError' = merged.error
          /\ IF merged.error # "none"
             THEN Raise("merge") /\ UNCHANGED <<clientToolNames, planCalls>>
             ELSE IF ~modelOk
             THEN Raise("model") /\ UNCHANGED <<clientToolNames, planCalls>>
             ELSE /\ clientToolNames' = Range(merged.clientToolNames)
                  /\ planCalls' = planCalls + 1
                  /\ pc' = "plan"
                  /\ timer' = IF entry = "stream" THEN "plan" ELSE "none"
                  /\ UNCHANGED <<failure, planSignal, actSignal, finishReason,
                                 usage, outcome>>
  /\ UNCHANGED <<cfgVars, resolvedPlan, anyParsed, plan, actVars, respCalls,
                 includeReasoning, hung, reasoningComplete, rpc, rIdx,
                 reasoningBlocks, tpc, textChunks, respFailed>>

\* The plan stream is drained and planPartial awaited: the working plan is
\* fixed, plan-complete is signalled and runActPhase is called.
AdapterPlanEnd ==
  /\ entry \in {"run", "stream"} /\ pc = "plan" /\ hung = "none"
  /\ plan' = WorkingPlan(resolvedPlan)
  /\ planQueue' = QueueOfPlan(plan')
  /\ previousActions' = <<>>
  /\ iterationCount' = 0
  /\ nextUid' = Len(plan') + 1
  /\ apc' = "start"
  /\ pc' = "act"
  /\ planSignal' = IF entry = "stream" THEN Resolved(plan') ELSE planSignal
  /\ timer' = IF entry = "stream" THEN "act" ELSE "none"
  /\ UNCHANGED <<cfgVars, resolvedPlan, anyParsed, currentStep, fs, col,
                 fullText, lastAction, streamError, partialsSeen, added,
                 iterLog, planCalls, actCalls, respCalls, inflight, failure,
                 includeReasoning, toolChoiceAbsent, mergeError,
                 clientToolNames, hung, actSignal, reasoningComplete,
                 finishReason, usage, rpc, rIdx, reasoningBlocks, tpc,
                 textChunks, outcome, respFailed>>

\* The plan stream raises (provider failure).
AdapterPlanRaise ==
  /\ entry \in {"run", "stream"} /\ pc = "plan" /\ hung = "none"
  /\ Raise("plan")
  /\ UNCHANGED <<cfgVars, resolvedPlan, anyParsed, plan, actVars, planCalls,
                 respCalls, includeReasoning, toolChoiceAbsent, mergeError,
                 clientToolNames, hung, reasoningComplete, rpc, rIdx,
                 reasoningBlocks, tpc, textChunks, respFailed>>

\* stream(): the timeout of the Plan phase's Promise.race wins.
PlanTimeout ==
  /\ entry = "stream" /\ pc = "plan" /\ timer = "plan"
  /\ Raise("planTimeout")
  /\ UNCHANGED <<cfgVars, resolvedPlan, anyParsed, plan, actVars, planCalls,
                 respCalls, includeReasoning, toolChoiceAbsent, mergeError,
                 clientToolNames, hung, reasoningComplete, rpc, rIdx,
                 reasoningBlocks, tpc, textChunks, respFailed>>

\* stream(): the timeout of the Act phase's Promise.race wins. The task
\* draining the Act stream is not cancelled: the loop goes on.
ActTimeout ==
  /\ entry = "stream" /\ pc = "act" /\ timer = "act"
  /\ Raise("actTimeout")
  /\ UNCHANGED <<cfgVars, resolvedPlan, anyParsed, plan, actVars, planCalls,
                 respCalls, includeReasoning, toolChoiceAbsent, mergeError,
                 clientToolNames, hung, reasoningComplete, rpc, rIdx,
                 reasoningBlocks, tpc, textChunks, respFailed>>

\* The Act stream is drained: actions = actStream.collectedActions. stream()
\* signals act-complete and executionPromise resolves; run() goes on to
\* runResponsePhase.
collectedActionsMutantEmpty == <<>>
collectedActions == previousActions

AdapterActDone ==
  /\ entry \in {"run", "stream"} /\ pc = "act" /\ apc = "done"
  /\ IF entry = "stream"
     THEN /\ actSignal' = Resolved(collectedActions)
          /\ pc' = "execDone"
          /\ UNCHANGED respCalls
     ELSE /\ respCalls' = respCalls + 1
          /\ pc' = "response"
          /\ UNCHANGED actSignal
  /\ timer' = "none"
  /\ UNCHANGED <<cfgVars, resolvedPlan, anyParsed, plan, actVars, planCalls,
                 failure, includeReasoning, toolChoiceAbsent, mergeError,
                 clientToolNames, hung, planSignal, reasoningComplete,
                 finishReason, usage, rpc, rIdx, reasoningBlocks, tpc,
                 textChunks, outcome, respFailed>>

\* run(): text, finishReason and steps of the Response call settle; each
\* rejection is caught and replaced by a default, and the result is returned.
RunRespEnd ==
  /\ entry = "run" /\ pc = "response" /\ hung = "none"
  /\ \E ok \in BOOLEAN : respFailed' = ~ok
  /\ outcome' = "resolved"
  /\ pc' = "done"
  /\ UNCHANGED <<cfgVars, resolvedPlan, anyParsed, plan, actVars, planCalls,
                 respCalls, failure, includeReasoning, toolChoiceAbsent,
                 mergeError, clientToolNames, timer, hung, planSignal,
                 actSignal, reasoningComplete, finishReason, usage, rpc, rIdx,
                 reasoningBlocks, tpc, textChunks>>

\* The Response call's stream never completes.
RespHang ==
  /\ hung = "none"
  /\ IF entry = "stream" THEN tpc = "response" ELSE pc = "response"
  /\ hung' = "response"
  /\ UNCHANGED <<coreVars, includeReasoning, toolChoiceAbsent, mergeError,
                 clientToolNames, timer, planSignal, actSignal,
                 reasoningComplete, finishReason, usage, rpc, rIdx,
                 reasoningBlocks, tpc, textChunks, outcome, respFailed>>

\* ------------------------------------------------ stream(): reasoningStream
\* Everything the two generators of stream() leave alone.
nonGenVars == <<coreVars, includeReasoning, toolChoiceAbsent, mergeError,
                clientToolNames, timer, planSignal, actSignal, outcome>>

\* A narration block: which list it narrates and the position of the
\* narrated element in that list.
Block(of, idx) == [of |-> of, idx |-> idx]

\* The consumer's first next(): the generator body starts and waits for
\* plan-complete. (Without reasoning the consumer is handed an empty
\* generator and this one is never started.)
ReasoningStart ==
  /\ entry = "stream" /\ includeReasoning /\ rpc = "unstarted"
  /\ rpc' = "awaitPlan"
  /\ UNCHANGED <<nonGenVars, hung, reasoningComplete, finishReason, usage,
                 rIdx, reasoningBlocks, tpc, textChunks, respFailed, respCalls>>

\* const plan = await planCompletePromise
ReasoningPlanReady ==
  /\ rpc = "awaitPlan" /\ planSignal.set
  /\ rpc' = "plan" /\ rIdx' = 0
  /\ UNCHANGED reasoningBlocks
  /\ UNCHANGED <<nonGenVars, hung, reasoningComplete, finishReason, usage, tpc,
                 textChunks, respFailed, respCalls>>

\* for (const step of plan.steps) yield ...: one block to the consumer.
ReasoningYieldPlan ==
  /\ rpc = "plan" /\ rIdx < Len(planSignal.val)
  /\ rIdx' = rIdx + 1
  /\ reasoningBlocks' = Append(reasoningBlocks, Block("plan", rIdx'))
  /\ UNCHANGED <<nonGenVars, hung, reasoningComplete, finishReason, usage, rpc,
                 tpc, textChunks, respFailed, respCalls>>

\* The consumer asks for more after the last plan block:
\* const actions = await actCompletePromise
ReasoningAwaitAct ==
  /\ rpc = "plan" /\ rIdx = Len(planSignal.val)
  /\ rpc' = "awaitAct"
  /\ UNCHANGED <<nonGenVars, hung, reasoningComplete, finishReason, usage,
                 rIdx, reasoningBlocks, tpc, textChunks, respFailed, respCalls>>

ReasoningActReady ==
  /\ rpc = "awaitAct" /\ actSignal.set
  /\ rpc' = "act" /\ rIdx' = 0
  /\ UNCHANGED reasoningBlocks
  /\ UNCHANGED <<nonGenVars, hung, reasoningComplete, finishReason, usage, tpc,
                 textChunks, respFailed, respCalls>>

\* for (const action of actions) yield ...
ReasoningYieldAct ==
  /\ rpc = "act" /\ rIdx < Len(actSignal.val)
  /\ rIdx' = rIdx + 1
  /\ reasoningBlocks' = Append(reasoningBlocks, Block("action", rIdx'))
  /\ UNCHANGED <<nonGenVars, hung, reasoningComplete, finishReason, usage, rpc,
                 tpc, textChunks, respFailed, respCalls>>

\* The loop is through: finally { resolveReasoningComplete() }.
ReasoningFinish ==
  /\ rpc = "act" /\ rIdx = Len(actSignal.val)
  /\ reasoningComplete' = TRUE
  /\ rpc' = "done"
  /\ UNCHANGED <<nonGenVars, hung, finishReason, usage, rIdx, reasoningBlocks,
                 tpc, textChunks, respFailed, respCalls>>

\* The consumer calls return(). A generator that never started just ends
\* (its body, finally included, never runs); one suspended at a yield runs
\* its finally block.
ReasoningReturn ==
  /\ entry = "stream" /\ includeReasoning
  /\ \/ /\ rpc = "unstarted"
        /\ rpc' = "abandoned"
        /\ UNCHANGED reasoningComplete
     \/ /\ rpc \in {"plan", "act"} /\ rIdx > 0
        /\ rpc' = "done"
        /\ reasoningComplete' = TRUE
  /\ UNCHANGED <<nonGenVars, hung, finishReason, usage, rIdx, reasoningBlocks,
                 tpc, textChunks, respFailed, respCalls>>

\* ----------------------------------------------------- stream(): textStream
\* The consumer's first next(): await executionPromise.
TextStart ==
  /\ entry = "stream" /\ tpc = "unstarted"
  /\ tpc' = "awaitExec"
  /\ UNCHANGED <<nonGenVars, hung, reasoningComplete, finishReason, usage, rpc,
                 rIdx, reasoningBlocks, textChunks, respFailed, respCalls>>

\* executionPromise rejected: the catch block resolves finishReason to
\* 'error' and rethrows to the consumer.
TextExecFailed ==
  /\ tpc = "awaitExec" /\ pc = "failed"
  /\ tpc' = "failed"
  /\ finishReason' = IF finishReason = "pending" THEN "error" ELSE finishReason
  /\ usage' = "resolved"
  /\ UNCHANGED <<nonGenVars, hung, reasoningComplete, rpc, rIdx,
                 reasoningBlocks, textChunks, respFailed, respCalls>>

\* if (includeReasoning) await reasoningCompletePromise
ResponseMayStartMutantNoWait == TRUE
ResponseMayStartMutantAlwaysWait == reasoningComplete
ResponseMayStart == includeReasoning => reasoningComplete

\* executionPromise resolved (and reasoning is complete, if requested):
\* agent.runResponsePhase(messages, plan, actions).
TextBeginResponse ==
  /\ tpc = "awaitExec" /\ pc = "execDone"
  /\ ResponseMayStart
  /\ respCalls' = respCalls + 1
  /\ tpc' = "response"
  /\ UNCHANGED <<cfgVars, pc, resolvedPlan, anyParsed, plan, actVars,
                 planCalls, failure, includeReasoning, toolChoiceAbsent,
                 mergeError, clientToolNames, timer, hung, planSignal,
                 actSignal, reasoningComplete, finishReason, usage, rpc, rIdx,
                 reasoningBlocks, textChunks, outcome, respFailed>>

\* A non-empty chunk of responseStream.textStream is yielded.
TextChunk ==
  /\ tpc = "response" /\ hung = "none"
  /\ textChunks < MaxChunks
  /\ textChunks' = textChunks + 1
  /\ UNCHANGED <<nonGenVars, hung, reasoningComplete, finishReason, usage, rpc,
                 rIdx, reasoningBlocks, tpc, respFailed, respCalls>>

\* responseStream.textStream ends or raises. "quiet": the call failed but
\* its textStream just ends and its finishReason promise rejects, which the
\* generator catches (finishReason ?? 'stop').
ResponseOutcomes == {"ok", "raise", "quiet"}

TextEnd ==
  /\ tpc = "response" /\ hung = "none"
  /\ \E o \in ResponseOutcomes :
       /\ respFailed' = (o # "ok")
       /\ tpc' = IF o = "raise" THEN "failed" ELSE "done"
       /\ finishReason' = IF finishReason # "pending" THEN finishReason
                          ELSE IF o = "raise" THEN "error" ELSE "stop"
  /\ usage' = "resolved"
  /\ UNCHANGED <<nonGenVars, hung, reasoningComplete, rpc, rIdx,
                 reasoningBlocks, textChunks, respCalls>>

ActIdle ==
  /\ planQueue = <<>> /\ previousActions = <<>> /\ iterationCount = 0
  /\ apc = "idle" /\ currentStep = NoStep /\ fs = "none" /\ col = "none"
  /\ fullText = FALSE /\ lastAction = NoAction /\ streamError = NoError
  /\ partialsSeen = FALSE /\ nextUid = 1 /\ added = 0 /\ iterLog = <<>>
  /\ actCalls = 0 /\ inflight = 0

\* The configurations explored. An unset budget (default 5, ceiling 10) is
\* beyond what MaxPlanLen + MaxAdded steps can exhaust; it is explored for
\* the text generation, which the adapter drives.
Configs ==
  {c \in [variant : {"structured", "text"}, steps : 0..MaxActSteps] :
     c.steps = 0 => c.variant = "text"}

NoSignal == [set |-> FALSE, val |-> <<>>]

\* The state stream() and run() start from: promises pending, generators
\* created but not started.
AdapterIdle ==
  /\ toolChoiceAbsent = "none" /\ mergeError = "none"
  /\ timer = "none" /\ hung = "none"
  /\ planSignal = NoSignal /\ actSignal = NoSignal
  /\ reasoningComplete = FALSE /\ finishReason = "pending"
  /\ usage = "pending" /\ reasoningBlocks = <<>>
  /\ rpc = "unstarted" /\ rIdx = 0 /\ tpc = "unstarted" /\ textChunks = 0
  /\ outcome = "pending" /\ respFailed = FALSE

Turn ==
  /\ mergeInput = Request(<<>>, AllBuiltins, NoChoice)
  /\ mergeOutput = NotMerged
  /\ ExtrasIdle
  /\ SidesIdle

InitAgent ==
  /\ entry = "agent" /\ Turn
  /\ \E c \in Configs : variant = c.variant /\ actStepsConfig = c.steps
  /\ pc = "start"
  /\ resolvedPlan = NoPlan /\ anyParsed = FALSE /\ plan = <<>>
  /\ ActIdle
  /\ planCalls = 0 /\ respCalls = 0 /\ failure = "none"
  /\ includeReasoning = FALSE /\ clientToolNames = {"lookup"}
  /\ AdapterIdle

NextAgent ==
  \/ AgentPlanStart
  \/ PlanPartial
  \/ PlanHang
  \/ AgentPlanEnd
  \/ AgentPlanRaise
  \/ ActStart
  \/ ActIterStart
  \/ ActLoopExit
  \/ ActPartial
  \/ ActCollectorEnd
  \/ ActStreamEnd
  \/ ActHang
  \/ ActIterFinish
  \/ AgentActDone
  \/ AgentActThrew
  \/ RespHang
  \/ AgentRespEnd

SpecAgent == InitAgent /\ [][NextAgent]_vars

\* The event loop runs every continuation that is ready, and the streams
\* of a model call end unless the call hangs (ActHang): weak fairness on
\* the steps of the stream runner and of its streams.
FairAct ==
  /\ WF_vars(ActStart) /\ WF_vars(ActIterStart) /\ WF_vars(ActLoopExit)
  /\ WF_vars(ActCollectorEnd) /\ WF_vars(ActStreamEnd)
  /\ WF_vars(ActIterFinish)
  /\ WF_vars(AgentActDone)

\* The current (text) generation of PlanActAgent.run on its own.
InitText == InitAgent /\ variant = "text"

NextText ==
  \/ AgentPlanStart
  \/ PlanPartial
  \/ PlanHang
  \/ AgentPlanEnd
  \/ AgentPlanRaise
  \/ ActStart
  \/ ActIterStart
  \/ ActLoopExit
  \/ ActCollectorEnd
  \/ ActStreamEnd
  \/ ActHang
  \/ ActIterFinish
  \/ AgentActDone
  \/ RespHang
  \/ AgentRespEnd

SpecTextFair == InitText /\ [][NextText]_vars /\ FairAct

\* createPlanActChatAdapter().run / .stream, which drive the current
\* (text) generation of PlanActAgent.
Init ==
  /\ entry \in {"run", "stream"} /\ Turn
  /\ variant = "text"
  /\ actStepsConfig \in 1..MaxActSteps
  /\ pc = "start"
  /\ resolvedPlan = NoPlan /\ anyParsed = FALSE /\ plan = <<>>
  /\ ActIdle
  /\ planCalls = 0 /\ respCalls = 0 /\ failure = "none"
  /\ includeReasoning \in BOOLEAN
  /\ (entry = "run") => ~includeReasoning
  /\ clientToolNames = {}
  /\ AdapterIdle

Next ==
  \/ AdapterSetup
  \/ PlanPartial
  \/ PlanHang
  \/ AdapterPlanEnd
  \/ AdapterPlanRaise
  \/ PlanTimeout
  \/ ActStart
  \/ ActIterStart
  \/ ActLoopExit
  \/ ActCollectorEnd
  \/ ActStreamEnd
  \/ ActHang
  \/ ActIterFinish
  \/ ActTimeout
  \/ AdapterActDone
  \/ RunRespEnd
  \/ RespHang
  \/ ReasoningStart
  \/ ReasoningPlanReady
  \/ ReasoningYieldPlan
  \/ ReasoningAwaitAct
  \/ ReasoningActReady
  \/ ReasoningYieldAct
  \/ ReasoningFinish
  \/ ReasoningReturn
  \/ TextStart
  \/ TextExecFailed
  \/ TextBeginResponse
  \/ TextChunk
  \/ TextEnd

Spec == Init /\ [][Next]_vars

\* stream() whose caller never reads reasoningStream or textStream: only
\* the execution task, started eagerly by stream(), and the model backend
\* take steps. The event loop runs every task that can run and fires every
\* pending timer, hence the weak fairness.
InitNoReader == Init /\ entry = "stream"

NextNoReader ==
  \/ AdapterSetup
  \/ PlanPartial
  \/ PlanHang
  \/ AdapterPlanEnd
  \/ AdapterPlanRaise
  \/ PlanTimeout
  \/ ActStart
  \/ ActIterStart
  \/ ActLoopExit
  \/ ActCollectorEnd
  \/ ActStreamEnd
  \/ ActHang
  \/ ActIterFinish
  \/ ActTimeout
  \/ AdapterActDone

SpecNoReader == InitNoReader /\ [][NextNoReader]_vars /\ WF_vars(NextNoReader)

\* stream() read by a consumer that drains reasoningStream to its end
\* before its first next() on textStream, and then drains textStream.
\* Without reasoning, reasoningStream is an empty generator and is drained
\* at once. The event loop runs every task that can run, timers fire and
\* the consumer keeps reading: weak fairness on everything but the arrival
\* of partial outputs and the hanging of a call.
\* One Act budget is explored: the budget sets how many Act calls are made,
\* not how the generators wait for each other.
InitDrain == Init /\ entry = "stream" /\ actStepsConfig = 1

ReasoningDrained == includeReasoning => rpc = "done"

DrainedTextStart == ReasoningDrained /\ TextStart

DrainProgress ==
  \/ AdapterSetup
  \/ AdapterPlanEnd
  \/ AdapterPlanRaise
  \/ PlanTimeout
  \/ ActStart
  \/ ActIterStart
  \/ ActLoopExit
  \/ ActCollectorEnd
  \/ ActStreamEnd
  \/ ActIterFinish
  \/ ActTimeout
  \/ AdapterActDone
  \/ ReasoningStart
  \/ ReasoningPlanReady
  \/ ReasoningYieldPlan
  \/ ReasoningAwaitAct
  \/ ReasoningActReady
  \/ ReasoningYieldAct
  \/ ReasoningFinish
  \/ DrainedTextStart
  \/ TextExecFailed
  \/ TextBeginResponse
  \/ TextChunk
  \/ TextEnd

NextDrain ==
  \/ AdapterSetup
  \/ PlanPartial
  \/ PlanHang
  \/ AdapterPlanEnd
  \/ AdapterPlanRaise
  \/ PlanTimeout
  \/ ActStart
  \/ ActIterStart
  \/ ActLoopExit
  \/ ActCollectorEnd
  \/ ActStreamEnd
  \/ ActHang
  \/ ActIterFinish
  \/ ActTimeout
  \/ AdapterActDone
  \/ RespHang
  \/ ReasoningStart
  \/ ReasoningPlanReady
  \/ ReasoningYieldPlan
  \/ ReasoningAwaitAct
  \/ ReasoningActReady
  \/ ReasoningYieldAct
  \/ ReasoningFinish
  \/ DrainedTextStart
  \/ TextExecFailed
  \/ TextBeginResponse
  \/ TextChunk
  \/ TextEnd

SpecDrain == InitDrain /\ [][NextDrain]_vars /\ WF_vars(DrainProgress)

\* No turn, no merge, no request: the state the sections that stand on
\* their own start from.
NoTurn ==
  /\ mergeInput = Request(<<>>, AllBuiltins, NoChoice)
  /\ mergeOutput = NotMerged
  /\ SidesIdle
  /\ actStepsConfig = 0
  /\ pc = "start"
  /\ resolvedPlan = NoPlan /\ anyParsed = FALSE /\ plan = <<>>
  /\ ActIdle
  /\ planCalls = 0 /\ respCalls = 0 /\ failure = "none"
  /\ includeReasoning = FALSE /\ clientToolNames = {}
  /\ AdapterIdle

\* runResponsePhase and formatReasoningDetails applied to every request,
\* plan and action history within the bounds.
InitFormat ==
  /\ NoTurn /\ McpIdle /\ ManagerIdle
  /\ entry = "format" /\ variant \in {"structured", "text"}
  /\ \E input \in Inputs, p \in 0..MaxPlanLen, a \in 0..MaxActSteps :
       phaseArgs = [input |-> input, steps |-> Titled(p), actions |-> Acted(a)]
  /\ responsePrompt = NotCalled /\ reasoningDetails = NotCalled

NextFormat ==
  \/ ResponseCall
  \/ FormatCall

SpecFormat == InitFormat /\ [][NextFormat]_vars

\* Callers of initializeMCPTools arriving at any moment.
InitMcp ==
  /\ NoTurn /\ FormatIdle /\ ManagerIdle
  /\ entry = "mcp" /\ variant = "text"
  /\ mcp = McpStart

NextMcp ==
  \/ McpCall
  \/ McpLoadSettle
  \/ McpResume
  \/ McpFollow

SpecMcp == InitMcp /\ [][NextMcp]_vars

\* initialize() calls and one close() on the singleton manager.
InitManager ==
  /\ NoTurn /\ FormatIdle /\ McpIdle
  /\ entry = "manager" /\ variant = "text"
  /\ \E configs \in SUBSET ServerIds : manager = ManagerStart(configs)

NextManager ==
  \/ ManagerInitialize
  \/ ManagerClientSettle
  \/ ManagerRunSettle
  \/ ManagerInitResume
  \/ ManagerInitFollow
  \/ ManagerCloseStart
  \/ ManagerCloseFinish

SpecManager == InitManager /\ [][NextManager]_vars

\* stream() read the way the HTTP controller reads it: textStream is
\* iterated to its end, reasoningStream is never touched. Fairness as for
\* the consumer that drains reasoningStream first.
TextOnlyProgress ==
  \/ AdapterSetup
  \/ AdapterPlanEnd
  \/ AdapterPlanRaise
  \/ PlanTimeout
  \/ ActStart
  \/ ActIterStart
  \/ ActLoopExit
  \/ ActCollectorEnd
  \/ ActStreamEnd
  \/ ActIterFinish
  \/ ActTimeout
  \/ AdapterActDone
  \/ TextStart
  \/ TextExecFailed
  \/ TextBeginResponse
  \/ TextChunk
  \/ TextEnd

NextTextOnly ==
  \/ AdapterSetup
  \/ PlanPartial
  \/ PlanHang
  \/ AdapterPlanEnd
  \/ AdapterPlanRaise
  \/ PlanTimeout
  \/ ActStart
  \/ ActIterStart
  \/ ActLoopExit
  \/ ActCollectorEnd
  \/ ActStreamEnd
  \/ ActHang
  \/ ActIterFinish
  \/ ActTimeout
  \/ AdapterActDone
  \/ RespHang
  \/ TextStart
  \/ TextExecFailed
  \/ TextBeginResponse
  \/ TextChunk
  \/ TextEnd

SpecTextOnly ==
  InitDrain /\ [][NextTextOnly]_vars /\ WF_vars(TextOnlyProgress)

\* mergeTools on its own: no turn is running.
InitMerge ==
  /\ mergeInput \in MergeRequests /\ mergeOutput = NotMerged
  /\ ExtrasIdle
  /\ SidesIdle
  /\ entry = "merge" /\ variant = "text" /\ actStepsConfig = 0
  /\ pc = "start"
  /\ resolvedPlan = NoPlan /\ anyParsed = FALSE /\ plan = <<>>
  /\ ActIdle
  /\ planCalls = 0 /\ respCalls = 0 /\ failure = "none"
  /\ includeReasoning = FALSE /\ clientToolNames = {}
  /\ AdapterIdle

NextMerge == MergeCall

SpecMerge == InitMerge /\ [][NextMerge]_vars

\* CompletionsController.createCompletion with stream: true, against any
\* agent whose stream() behaves as AgentStreams describes.
InitSse ==
  /\ mergeInput = Request(<<>>, AllBuiltins, NoChoice)
  /\ mergeOutput = NotMerged
  /\ ExtrasIdle
  /\ agentStream \in AgentStreams
  /\ res = NoResponse
  /\ \E g \in {"usage", "plain"} :
       handler = [pc |-> "start", generation |-> g, read |-> 0]
  /\ CallsIdle /\ RunsIdle
  /\ entry = "sse" /\ variant = "text" /\ actStepsConfig = 0
  /\ pc = "start"
  /\ resolvedPlan = NoPlan /\ anyParsed = FALSE /\ plan = <<>>
  /\ ActIdle
  /\ planCalls = 0 /\ respCalls = 0 /\ failure = "none"
  /\ includeReasoning = FALSE /\ clientToolNames = {}
  /\ AdapterIdle

NextSse ==
  \/ SseBegin
  \/ SseDelta
  \/ SseStreamEnd
  \/ SseFinal
  \/ SseStreamRaise

SpecSse == InitSse /\ [][NextSse]_vars

\* The model calls of one PlanActAgent turn, in either generation, for
\* every tool configuration the constructor can be given.
InitCalls ==
  /\ mergeInput = Request(<<>>, AllBuiltins, NoChoice)
  /\ mergeOutput = NotMerged
  /\ ExtrasIdle
  /\ SseIdle /\ RunsIdle
  /\ toolConfig \in [plan : ToolMaps, act : ToolMaps] /\ issued = <<>>
  /\ entry = "calls" /\ variant \in {"structured", "text"}
  /\ actStepsConfig = 0
  /\ pc = "start"
  /\ resolvedPlan = NoPlan /\ anyParsed = FALSE /\ plan = <<>>
  /\ ActIdle
  /\ planCalls = 0 /\ respCalls = 0 /\ failure = "none"
  /\ includeReasoning = FALSE /\ clientToolNames = {}
  /\ AdapterIdle

NextCalls ==
  \/ IssuePlan
  \/ IssueAct
  \/ IssueResponse

SpecCalls == InitCalls /\ [][NextCalls]_vars

\* Two run() / stream() calls on one adapter, interleaved at every await.
InitRuns ==
  /\ mergeInput = Request(<<>>, AllBuiltins, NoChoice)
  /\ mergeOutput = NotMerged
  /\ ExtrasIdle
  /\ SseIdle /\ CallsIdle
  /\ heap = EmptyHeap
  /\ runs = [r \in RunIds |-> [NoRun EXCEPT !.pc = "plan"]]
  /\ entry = "runs" /\ variant = "text"
  /\ actStepsConfig \in 1..MaxActSteps
  /\ pc = "start"
  /\ resolvedPlan = NoPlan /\ anyParsed = FALSE /\ plan = <<>>
  /\ ActIdle
  /\ planCalls = 0 /\ respCalls = 0 /\ failure = "none"
  /\ includeReasoning = FALSE /\ clientToolNames = {}
  /\ AdapterIdle

NextRuns ==
  \/ RunPlan
  \/ RunActStart
  \/ RunActIter
  \/ RunActDone
  \/ RunResponse

SpecRuns == InitRuns /\ [][NextRuns]_vars

\* ================================================================ claims
\* Iterations started so far, and the records whose addedSteps has two steps.
Iterations == 1..Len(iterLog)
TwoStepReports ==
  {i \in 1..Len(previousActions) : Len(previousActions[i].adds) = 2}

\* Was the step with identity u shifted off the queue before iteration j?
ExecutedBefore(u, j) == \E i \in 1..(j - 1) : iterLog[i].step.u = u

\* Steps queued before iteration K started run only after S2 has run.
QueuedBeforeWaitForS2(K, S2) ==
  \A j \in Iterations :
    (j > K /\ iterLog[j].step.u < iterLog[K].base) => ExecutedBefore(S2.u, j)

\* C2: the Act loop's iteration counter never exceeds twice the effective
\* act step budget, and no more than that many Act model calls are issued.
C2_IterationCeiling ==
  /\ iterationCount <= 2 * actSteps
  /\ actCalls <= 2 * actSteps

\* C2 witness: the loop stopped at the ceiling with steps left in the queue.
C2_Witness ==
  /\ apc = "done"
  /\ iterationCount = 2 * actSteps
  /\ actCalls = 2 * actSteps
  /\ Len(planQueue) > 0

C5_EmptyPlanSkipsAct ==
  (entry = "agent" /\ ~anyParsed /\ pc \in {"act", "response", "done", "failed"}
     /\ failure # "plan")
    => /\ plan = <<>>
       /\ iterationCount = 0 /\ actCalls = 0 /\ previousActions = <<>>
       /\ apc # "threw" /\ failure # "act"
       /\ (pc \in {"response", "done", "failed"}) => respCalls = 1

\* C5 witness: partials arrived, none parsed, and the turn completed with
\* the Response call made.
C5_Witness ==
  /\ entry = "agent" /\ ~anyParsed /\ pc = "done"
  /\ partialsSeen /\ planCalls = 1 /\ actCalls = 0 /\ respCalls = 1

\* The iterations whose model call ended with the given outcome.
IterationsEnded(o) == {i \in Iterations : iterLog[i].out = o}
RecordsOf(i) == {j \in 1..Len(previousActions) : previousActions[j].iter = i}

\* C1: in stream() with reasoning requested, textStream has yielded no chunk
\* unless reasoningStream is through (it yields no further block) and the
\* reasoning-complete signal is resolved.
C1_TextAfterReasoning ==
  (entry = "stream" /\ includeReasoning /\ textChunks > 0)
    => (reasoningComplete /\ rpc = "done")

\* C1 witness: reasoning yielded plan and action blocks to the end, then
\* text was yielded.
C1_Witness ==
  /\ entry = "stream" /\ includeReasoning /\ textChunks > 0
  /\ Len(planSignal.val) > 0 /\ Len(actSignal.val) > 0
  /\ rpc = "done" /\ rIdx = Len(actSignal.val)

\* Every iteration's model output was well formed: the stream ended and the
\* text parsed into an action; no step was inserted.
AllWellFormed ==
  /\ added = 0
  /\ \A i \in Iterations : iterLog[i].out = "ended"
  /\ \A j \in 1..Len(previousActions) : previousActions[j].kind = "parsed"

\* C4 (as amended): for a plan of N steps, no dynamic insertion and well
\* formed output at every step, the action history has length
\* min(N, 2 x act budget) when the Act phase ends.
C4_HistoryLength ==
  (entry \in {"run", "stream"} /\ apc = "done" /\ AllWellFormed)
    => Len(previousActions) = Min(Len(plan), 2 * actSteps)

\* C4 witness: a plan longer than the ceiling, truncated.
C4_Witness ==
  /\ entry \in {"run", "stream"} /\ apc = "done" /\ AllWellFormed
  /\ Len(plan) = 3 /\ actSteps = 1 /\ Len(previousActions) = 2

\* C4 as stated: the history has length exactly N, for any N.
C4_Original ==
  (entry \in {"run", "stream"} /\ apc = "done" /\ AllWellFormed)
    => Len(previousActions) = Len(plan)

\* C6 as stated: when tool_choice names a tool that is neither a valid
\* declared tool nor an enabled built-in, mergeTools fails with an error
\* naming the tool and no Plan, Act or Response call is ever issued.
C6_AbsentToolFailsFirst ==
  (entry \in {"run", "stream"} /\ toolChoiceAbsent # "none")
    => /\ mergeError = toolChoiceAbsent
       /\ failure = "merge"
       /\ planCalls = 0 /\ actCalls = 0 /\ respCalls = 0

\* C7: an iteration whose model stream raised the external-execution signal
\* does not make the Act phase raise; it appends exactly one record, which
\* names the tool and the call of the signal; and the loop goes on: it ends
\* only with the queue empty or at the iteration ceiling.
C7_ClientSignalNonFatal ==
  /\ \A i \in IterationsEnded("clientErr") :
       /\ Cardinality(RecordsOf(i)) = 1
       /\ \A j \in RecordsOf(i) :
            /\ previousActions[j].kind = "client"
            /\ previousActions[j].tool = iterLog[i].err.tool
            /\ previousActions[j].call = iterLog[i].err.call
  /\ (IterationsEnded("clientErr") # {})
       => /\ apc # "threw" /\ failure # "act"
          /\ (apc = "done") =>
               (planQueue = <<>> \/ iterationCount = 2 * actSteps)

\* C7 witness: a signal at the first iteration, the rest of the queue
\* executed after it, the Act phase ended normally.
C7_Witness ==
  /\ 1 \in IterationsEnded("clientErr")
  /\ iterLog[1].err.tool \in clientToolNames
  /\ Len(iterLog) >= 2 /\ apc = "done" /\ planQueue = <<>>
  /\ Len(previousActions) = Len(iterLog)

\* The phase whose model stream will never complete.
HungPhase == IF fs = "hung" THEN "act" ELSE hung

\* C8 as stated: in stream(), whenever a phase's model stream hangs and the
\* run is not yet terminal, that phase's timeout is pending; and a timeout
\* leaves finishReason at 'error' with no Response phase.
C8_PhasesBounded ==
  (entry = "stream")
    => /\ (HungPhase # "none" /\ finishReason = "pending") => timer = HungPhase
       /\ (failure \in {"planTimeout", "actTimeout"})
            => (finishReason = "error" /\ tpc \notin {"response", "done"})

\* C9 as stated: once an Act model call failed with a provider error, no
\* further Act call and no Response call is issued and the turn does not
\* complete.
C9_ProviderFailureFatal ==
  \A i \in IterationsEnded("otherErr") :
    /\ Len(iterLog) = i /\ actCalls = i
    /\ respCalls = 0
    /\ pc \notin {"execDone", "response", "done"}

\* C10 as stated: run() does not resolve when the Response call failed.
C10_RunRejectsOnResponseFailure ==
  (entry = "run" /\ respFailed) => outcome # "resolved"

\* C11: in stream(), once tool merging, model resolution, the Plan phase
\* or the Act phase has failed or timed out, finishReason is 'error' (not
\* 'stop'), usage is resolved, textStream has yielded no chunk and is not in
\* (and never went through) the Response phase, so that it can only raise,
\* no Response call was issued, and plan-complete and act-complete are both
\* released, so that reasoningStream is never left waiting.
StreamFailures == {"merge", "model", "plan", "planTimeout", "actTimeout"}

C11_FailureIsTerminal ==
  (entry = "stream" /\ pc = "failed")
    => /\ failure \in StreamFailures
       /\ finishReason = "error" /\ usage = "resolved"
       /\ textChunks = 0 /\ tpc \in {"unstarted", "awaitExec", "failed"}
       /\ respCalls = 0
       /\ planSignal.set /\ actSignal.set
       /\ rpc \in {"awaitPlan", "awaitAct"} => ENABLED (ReasoningPlanReady
                                                         \/ ReasoningActReady)

\* The Act phase timed out after a plan with steps: the reasoning consumer
\* was served the plan blocks and ran to the end, the text consumer was
\* raised at.
C11_Witness ==
  /\ entry = "stream" /\ failure = "actTimeout"
  /\ tpc = "failed" /\ rpc = "done" /\ reasoningComplete
  /\ Len(reasoningBlocks) > 0 /\ finishReason = "error"

\* ------------------------------------------------- mergeTools on its own
\* The request's declared tools with a supported schema, the built-in tools
\* getActiveTools hands to the merge, and the result of the call.
ValidDeclared ==
  {mergeInput.tools[i].name :
     i \in {j \in 1..Len(mergeInput.tools) : mergeInput.tools[j].valid}}
ActiveBuiltins ==
  Range(getActiveTools(mergeInput.enabled)) \cap Range(DefaultToolset)
Admits(n) == shouldIncludeTool(mergeInput.choice, n)
Out == mergeOutput.out

\* C12: a name carried both by a valid declared tool and by an enabled
\* built-in tool, and admitted by the tool choice, is mapped by the merged
\* toolset to the declared tool (the client loop made the last assignment),
\* and is listed in clientToolNames and not in builtinToolNames.
C12_DeclaredWinsCollision ==
  mergeOutput.called =>
    \A n \in ValidDeclared \cap ActiveBuiltins :
      Admits(n) =>
        /\ Out.error = "none"
        /\ n \in Out.toolSet /\ Out.owner[n] = "client"
        /\ n \in Range(Out.clientToolNames)
        /\ n \notin Range(Out.builtinToolNames)

\* A declared calculator collides with the built-in one; the other built-in
\* tools are merged next to it.
C12_Witness ==
  /\ mergeOutput.called
  /\ "calculator" \in ValidDeclared \cap ActiveBuiltins /\ Admits("calculator")
  /\ Out.owner["calculator"] = "client"
  /\ "getCurrentTime" \in Range(Out.builtinToolNames)

\* C13: the tool choice filters every candidate: 'none' leaves the merged
\* toolset empty; 'auto', 'required' and no tool choice let in every valid
\* declared tool and every enabled built-in tool (and nothing else); a
\* specific name lets in no tool of another name.
C13_ToolChoiceFilters ==
  mergeOutput.called =>
    LET c == mergeInput.choice
    IN /\ c.type = "none" => Out.toolSet = {} /\ Out.error = "none"
       /\ c.type \in {"unset", "auto", "required"}
            => /\ Out.toolSet = ValidDeclared \cup ActiveBuiltins
               /\ Out.error = "none"
       /\ c.type = "function" => Out.toolSet \subseteq {c.name}

\* tool_choice names the built-in calculator while lookup is declared too.
C13_Witness ==
  /\ mergeOutput.called
  /\ mergeInput.choice = Specific("calculator")
  /\ "lookup" \in ValidDeclared
  /\ Out.toolSet = {"calculator"} /\ Out.error = "none"

\* C14 (amended): a declared tool with an unsupported schema is dropped.
\* mergeTools then fails only because tool_choice names a tool that is
\* neither a valid declared tool nor an active built-in tool; when it
\* returns, the merged toolset holds every valid declared tool and every
\* active built-in tool the tool choice admits, each valid declared tool is
\* listed once per declaration, and no name is owned by a declared tool
\* unless a valid declaration carries it.
AdmittedValid(t) == t.valid /\ Admits(t.name)

C14_InvalidDropped ==
  mergeOutput.called =>
    /\ Out.error # "none"
         => /\ mergeInput.choice.type = "function"
            /\ Out.error = mergeInput.choice.name
            /\ Out.error \notin ValidDeclared \cup ActiveBuiltins
    /\ Out.error = "none"
         => /\ \A n \in ValidDeclared :
                 Admits(n) => n \in Out.toolSet /\ Out.owner[n] = "client"
            /\ \A n \in ActiveBuiltins : Admits(n) => n \in Out.toolSet
            /\ \A n \in Out.toolSet :
                 Out.owner[n] = "client" => n \in ValidDeclared
            /\ Len(Out.clientToolNames)
                 = Len(SelectSeq(mergeInput.tools, AdmittedValid))

\* A valid and an invalid declaration are mixed and the merge returns.
C14_Witness ==
  /\ mergeOutput.called
  /\ mergeInput.tools = <<Declared("lookup", FALSE), Declared("calculator", TRUE)>>
  /\ mergeInput.choice.type = "auto"
  /\ Out.error = "none" /\ "lookup" \notin Out.toolSet
  /\ Out.owner["calculator"] = "client"

\* C14 as stated: an invalid declaration never makes mergeTools fail, i.e.
\* whenever the merge fails it would also fail with every declared schema
\* supported.
AllValid(req) ==
  [req EXCEPT !.tools = [i \in 1..Len(req.tools) |-> Declared(req.tools[i].name, TRUE)]]

C14_Original ==
  (mergeOutput.called /\ Out.error # "none")
    => mergeTools(AllValid(mergeInput)).error # "none"

\* C15: with enabled_builtin_tools = [] the merged toolset holds no built-in
\* tool; all built-in tools are merged only when the list is absent.
C15_EmptyListDisablesAll ==
  (mergeOutput.called /\ mergeInput.enabled.set)
    => /\ Len(mergeInput.enabled.names) = 0 => Out.builtinToolNames = <<>>
       /\ Range(Out.builtinToolNames) \subseteq Range(mergeInput.enabled.names)

\* ------------------------------------------------ stream(): the channels
\* The narration of a turn: one block per plan step, in plan order, then one
\* block per record of the action history, in history order.
Narration ==
  [i \in 1..(Len(plan) + Len(previousActions)) |->
     IF i <= Len(plan) THEN Block("plan", i) ELSE Block("action", i - Len(plan))]

IsPrefix(a, b) == Len(a) <= Len(b) /\ a = SubSeq(b, 1, Len(a))

\* C16: with reasoning requested, in a turn whose Plan and Act phases
\* complete with a plan of P steps and a history of A records,
\* reasoningStream yields the P plan blocks in plan order and then the A
\* action blocks in history order: what it has yielded is always a prefix
\* of that narration, it is the whole narration (P + A blocks) when the
\* generator runs to its end, and no block is yielded once the Response
\* phase, hence the first textStream chunk, has started.
C16_ReasoningNarration ==
  /\ []((entry = "stream" /\ includeReasoning /\ pc \in {"act", "execDone"})
         => IsPrefix(reasoningBlocks, Narration))
  /\ [][(ReasoningFinish /\ pc = "execDone") => reasoningBlocks = Narration]_vars
  /\ [][(entry = "stream" /\ respCalls > 0)
         => reasoningBlocks' = reasoningBlocks]_vars

\* Three plan blocks and two action blocks were yielded before the first
\* text chunk.
C16_Witness ==
  /\ entry = "stream" /\ includeReasoning /\ pc = "execDone"
  /\ Len(plan) = 3 /\ Len(previousActions) = 2
  /\ rpc = "done" /\ reasoningBlocks = Narration
  /\ textChunks > 0

\* C17: without reasoning requested, reasoningStream yields no block (its
\* body never runs and reasoning-complete is never signalled), and
\* textStream, once it is read and the Act phase has completed, can start
\* the Response phase at once.
C17_NoReasoningNoGate ==
  (entry = "stream" /\ ~includeReasoning)
    => /\ reasoningBlocks = <<>> /\ rpc = "unstarted" /\ ~reasoningComplete
       /\ (pc = "execDone" /\ tpc = "awaitExec") => ENABLED TextBeginResponse

\* The answer was streamed to its end while reasoningStream was never read.
C17_Witness ==
  /\ entry = "stream" /\ ~includeReasoning
  /\ tpc = "done" /\ textChunks > 0 /\ finishReason = "stop"
  /\ rpc = "unstarted" /\ ~reasoningComplete

\* ------------------------------------------------------- the Act phase
\* C18: at most one Act model call is in flight; the stream runner leaves
\* an iteration only when the call's stream and its output collector have
\* both completed, and it issues a model call only when no call is open.
C18_OneCallInFlight ==
  /\ [](inflight <= 1)
  /\ [][(apc = "streaming" /\ apc' # "streaming")
         => (fs \in StreamOutcomes /\ col = "done")]_vars
  /\ [][actCalls' # actCalls
         => (inflight = 0 /\ fs = "none" /\ col = "none")]_vars

\* The second step's call is streaming after the first one's stream and
\* collector completed.
C18_Witness ==
  /\ Len(iterLog) = 2 /\ iterLog[1].out \in StreamOutcomes
  /\ apc = "streaming" /\ fs = "open" /\ col = "open" /\ inflight = 1
  /\ actCalls = 2

\* C19: the action history only grows at its end, by one record at a time,
\* and its records are in execution order: the iteration that produced a
\* record is later than the iteration of every record before it.
C19_HistoryAppendOnly ==
  /\ [][/\ IsPrefix(previousActions, previousActions')
        /\ Len(previousActions') <= Len(previousActions) + 1]_vars
  /\ [](\A i, j \in 1..Len(previousActions) :
          i < j => previousActions[i].iter < previousActions[j].iter)

\* Three iterations ran; the second one left no record.
C19_Witness ==
  /\ Len(previousActions) = 2 /\ iterationCount = 3 /\ apc = "loop"
  /\ previousActions[1].iter = 1 /\ previousActions[2].iter = 3

\* C20: when the caller never reads the channels, the run reaches a
\* terminal state on its own and its finishReason future settles.
C20_SettlesWithoutReader == <>(finishReason # "pending")

\* The built-in tools the request enables, as the request states it: all of
\* them without an enable-list, the listed ones otherwise.
EnabledBuiltins ==
  IF mergeInput.enabled.set
  THEN Range(mergeInput.enabled.names) \cap Range(DefaultToolset)
  ELSE Range(DefaultToolset)

\* C23: with tool choice 'required' and a non-empty set of enabled built-in
\* tools, mergeTools returns, and the toolset it returns is non-empty and
\* carries every enabled built-in name, whatever tools are declared.
C23_RequiredNonEmpty ==
  (mergeOutput.called /\ mergeInput.choice.type = "required"
     /\ EnabledBuiltins # {})
    => /\ Out.error = "none"
       /\ Out.toolSet # {}
       /\ EnabledBuiltins \subseteq Out.toolSet

\* 'required' with an invalid declaration and one colliding with the only
\* enabled built-in tool.
C23_Witness ==
  /\ mergeOutput.called /\ mergeInput.choice.type = "required"
  /\ mergeInput.tools = <<Declared("lookup", FALSE), Declared("calculator", TRUE)>>
  /\ mergeInput.enabled = [set |-> TRUE, names |-> <<"calculator">>]
  /\ Out.toolSet = {"calculator"}

\* C27: every iteration the Act loop has finished contributed exactly one
\* record, parsed or generic: between iterations and when the phase ends the
\* history is as long as the number of iterations performed.
C27_OneRecordPerIteration ==
  (pc = "act" /\ apc \in {"loop", "done"})
    => /\ Len(previousActions) = iterationCount
       /\ \A i \in 1..Len(previousActions) :
            previousActions[i].kind \in {"parsed", "generic", "client"}

\* C28: a partial output that adds steps without giving a reason puts them
\* at the front of the queue, in their order, as one with a reason does, and
\* raises nothing; the record it leaves is the one appended when the
\* iteration ends normally.
C28_NoReasonStillInserted ==
  /\ [][(/\ apc = "streaming" /\ lastAction' # lastAction
         /\ lastAction'.kind = "parsed" /\ lastAction'.adds # <<>>
         /\ ~lastAction'.reason)
          => /\ planQueue' = lastAction'.adds \o planQueue
             /\ apc' = "streaming"]_vars
  /\ [][(/\ apc = "streaming" /\ apc' = "loop"
         /\ lastAction.adds # <<>> /\ ~lastAction.reason)
          => previousActions' = Append(previousActions, lastAction)]_vars

\* A record that added two steps without a reason is in the history and its
\* first added step was executed next.
C28_Witness ==
  /\ variant = "structured" /\ Len(previousActions) >= 1 /\ Len(iterLog) >= 2
  /\ Len(previousActions[1].adds) = 2 /\ ~previousActions[1].reason
  /\ iterLog[2].step = previousActions[1].adds[1]

\* C25: the plan kept by the plan collector, and the working plan handed to
\* the Act phase, come from a partial output that parses against the Plan
\* shape: a plan is kept exactly when some partial parsed, every step of it
\* is complete, and the Act phase works on it.
C25_WorkingPlanIsLastValid ==
  /\ resolvedPlan.set <=> anyParsed
  /\ \A i \in 1..Len(resolvedPlan.steps) : resolvedPlan.steps[i].c
  /\ pc \in {"act", "execDone", "response", "done"}
       => plan = WorkingPlan(resolvedPlan)

\* ---------------------------------------------------------------- C21
\* The payloads a client reads for the non-empty deltas of the text stream.
NonEmptyDelta(d) == d # ""
ContentChunks ==
  LET ds == SelectSeq(agentStream.textStream, NonEmptyDelta)
  IN [i \in 1..Len(ds) |-> chunkEvent({<<"content", ds[i]>>}, "null", NoUsage)]
ExpectedFinal ==
  chunkEvent({},
             IF agentStream.finishReason \in {"undefined", "rejected"}
             THEN "stop" ELSE agentStream.finishReason,
             IF agentStream.usage.kind = "resolved"
             THEN mapUsageToOpenAI(agentStream.usage.value) ELSE NoUsage)
ExpectedWrites ==
  <<chunkEvent({<<"role", "assistant">>}, "null", NoUsage)>> \o ContentChunks
    \o <<ExpectedFinal, Done>>

\* C21: when the text stream yields its deltas and ends normally, what the
\* controller has written is at every moment a prefix of: the initial chunk
\* (role assistant, finish_reason null), one content chunk per non-empty
\* delta in stream order, the final chunk (empty delta, the resolved finish
\* reason or 'stop', the usage when the stream provides one), one [DONE]
\* sentinel; the response is ended exactly when all of it has been written.
C21_StreamOrder ==
  (handler.pc \in {"iterating", "settling", "done"}
     /\ agentStream.ending = "end")
    => /\ IsPrefix(res.writes, ExpectedWrites)
       /\ res.writableEnded <=> handler.pc = "done"
       /\ handler.pc = "done" => res.writes = ExpectedWrites

\* ---------------------------------------------------------------- C22
\* C22: when the text stream raises after some deltas, the chunks already
\* written stay, followed by exactly one final chunk with finish_reason
\* 'error' and no usage and exactly one [DONE] sentinel, and the response
\* is ended; every write extends what was written, and nothing is written
\* once the response has ended.
C22_ErrorFlow ==
  /\ [](handler.pc = "done" /\ agentStream.ending = "raise"
          => /\ res.writes =
                  <<chunkEvent({<<"role", "assistant">>}, "null", NoUsage)>>
                    \o ContentChunks
                    \o <<chunkEvent({}, "error", NoUsage), Done>>
             /\ res.writableEnded)
  /\ [][IsPrefix(res.writes, res'.writes)]_vars
  /\ [][res.writableEnded => res' = res]_vars
C22_Witness ==
  /\ handler.pc = "done" /\ agentStream.ending = "raise"
  /\ agentStream.textStream = <<"Hello">>
  /\ Len(res.writes) = 4 /\ res.writableEnded

C24_ActTerminates ==
  /\ []((pc = "act" /\ apc = "done")
          => /\ Len(planQueue) = 0 \/ iterationCount = 2 * actSteps
             /\ failure = "none")
  /\ [](iterationCount <= 2 * actSteps)
  /\ (pc = "act") ~> (pc # "act" \/ fs = "hung")
  /\ (pc = "act" /\ apc = "done") ~> (pc = "response")
  /\ [][pc = "act" /\ pc' = "response"
          => previousActions' = previousActions /\ failure' = "none"]_vars
C24_Witness ==
  /\ pc = "response" /\ failure = "none"
  /\ Len(planQueue) > 0 /\ iterationCount = 2 * actSteps
  /\ Len(previousActions) = 2

\* ---------------------------------------------------------------- C29
\* C29: a consumer that drains reasoningStream before its first read of
\* textStream is never left waiting: reasoningStream comes to its end, and
\* only once the act-complete signal is set, so Plan and Act ran while
\* textStream was unread; textStream then comes to its end (or raises),
\* unless the Response call itself hangs.
C29_DrainFirstNoDeadlock ==
  /\ [](tpc # "unstarted" => ReasoningDrained)
  /\ []((includeReasoning /\ rpc = "done") => actSignal.set)
  /\ <>ReasoningDrained
  /\ <>(tpc \in {"done", "failed"} \/ hung = "response")
C29_Witness ==
  /\ includeReasoning /\ rpc = "done" /\ Len(reasoningBlocks) >= 2
  /\ tpc = "done" /\ textChunks >= 1 /\ finishReason = "stop"

\* ---------------------------------------------------------------- C30
\* Everything run r can see: its queue, its history, what it fed to its
\* reasoning channel and what it handed to its Response phase.
SeenBy(r) ==
  (IF runs[r].planQueue = NoRef THEN {}
   ELSE Range(heap.cells[runs[r].planQueue]))
  \cup (IF runs[r].previousActions = NoRef THEN {}
        ELSE Range(heap.cells[runs[r].previousActions]))
  \cup Range(runs[r].reasoning) \cup Range(runs[r].context)

\* C30: with two runs interleaved on one adapter, every step and every
\* record in the queue, the history, the reasoning channel and the
\* Response context of a run belongs to that run, and the two runs share
\* no array.
C30_RunsIsolated ==
  /\ \A r \in RunIds : \A x \in SeenBy(r) : x.owner = r
  /\ \A r \in RunIds :
       runs[r].planQueue # NoRef =>
         {runs[r].planQueue, runs[r].previousActions}
           \cap {runs[3 - r].planQueue, runs[3 - r].previousActions} = {}
C30_Witness ==
  /\ runs[1].pc = "done" /\ runs[2].pc = "loop"
  /\ Len(runs[1].context) = 4 /\ Len(runs[1].reasoning) = 4
  /\ runs[2].iterationCount = 1
  /\ Len(heap.cells[runs[2].planQueue]) = 1

\* ---------------------------------------------------------------- C36
\* C36: once the SSE headers are set and the handler has come to rest,
\* exactly one [DONE] sentinel has been written, it is the last write, and
\* the response is ended; agent.stream() throwing included.
C36_AlwaysTerminated ==
  (res.headers /\ handler.pc \in {"done", "threw"})
    => /\ res.writableEnded
       /\ Len(res.writes) > 0 /\ res.writes[Len(res.writes)] = Done
       /\ Cardinality({i \in 1..Len(res.writes) : res.writes[i] = Done}) = 1

\* ---------------------------------------------------------------- C35
\* C35: whatever mergeTools returns, the keys of toolSet are the keys of
\* metadata and the union of the two name lists, the lists are disjoint
\* and free of duplicates, and their lengths sum to the number of tools.
NoDuplicates(names) ==
  \A i, j \in 1..Len(names) : names[i] = names[j] => i = j
C35_MergeConsistent ==
  (mergeOutput.called /\ Out.error = "none")
    => /\ Out.toolSet = Out.metadata
       /\ Out.toolSet = Range(Out.clientToolNames) \cup Range(Out.builtinToolNames)
       /\ Range(Out.clientToolNames) \cap Range(Out.builtinToolNames) = {}
       /\ NoDuplicates(Out.clientToolNames)
       /\ NoDuplicates(Out.builtinToolNames)
       /\ Len(Out.clientToolNames) + Len(Out.builtinToolNames)
            = Cardinality(Out.toolSet)

\* ---------------------------------------------------------------- C33
\* C33: the steps one Act step adds enter the queue once each: for every
\* record in the history, the number of steps inserted during its
\* iteration is the number of added steps the record lists, however many
\* partial outputs carried them, and the record lists no step twice. (A
\* record that lists added steps was left by a partial that carried them.)
C33_InsertedOncePerStep ==
  \A k \in 1..Len(previousActions) :
    LET record == previousActions[k]
    IN (record.kind = "parsed" /\ Len(record.adds) > 0)
         => /\ iterLog[record.iter].ins = Len(record.adds)
            /\ \A i, j \in 1..Len(record.adds) :
                 record.adds[i].t = record.adds[j].t => i = j

\* ---------------------------------------------------------------- C34
\* The identities of the steps executed so far and of the steps queued.
ExecutedIds == {iterLog[i].step.u : i \in 1..Len(iterLog)}
QueuedIds == {planQueue[i].u : i \in 1..Len(planQueue)}

\* C34: during the Act phase every step that was ever queued (the steps of
\* the plan and every step inserted since) is either still in the queue,
\* once, or was executed, once, and never both: a step leaves the queue
\* only by being executed. Hence executed + queued = plan length + steps
\* added; and between iterations no collector is alive that could touch
\* the queue.
C34_WorkConserved ==
  (pc = "act" /\ apc \in {"start", "loop", "streaming", "done", "threw"})
    => /\ ExecutedIds \cup QueuedIds = 1..(nextUid - 1)
       /\ ExecutedIds \cap QueuedIds = {}
       /\ Cardinality(QueuedIds) = Len(planQueue)
       /\ Cardinality(ExecutedIds) = Len(iterLog)
       /\ Len(iterLog) = iterationCount
       /\ nextUid - 1 = Len(plan) + added
       /\ iterationCount + Len(planQueue) = Len(plan) + added
       /\ apc # "streaming" => inflight = 0
C34_Witness ==
  /\ pc = "act" /\ apc = "loop" /\ variant = "structured"
  /\ Len(plan) = 2 /\ added = 2 /\ iterationCount = 3 /\ Len(planQueue) = 1

\* ---------------------------------------------------------------- C32
\* C32: when the consumer iterates textStream only, textStream comes to
\* its end or raises and the finishReason promise settles, with or
\* without reasoning requested, unless the Response call itself hangs.
C32_TextOnlySettles ==
  <>((tpc \in {"done", "failed"} /\ finishReason # "pending")
     \/ hung = "response")

\* ---------------------------------------------------------------- C31
\* C31: for a request that has a message of role user, the Response call
\* is handed, of the request's messages, the most recent one of role user
\* and no other, and with it every plan step and every action record, in
\* order, be it in the prompt or in the system message.
UserPositions == {i \in 1..Len(phaseArgs.input) : phaseArgs.input[i].role = "user"}
LastUserMessage ==
  phaseArgs.input[CHOOSE i \in UserPositions : \A j \in UserPositions : j <= i]
FromInput(msg) == msg.from = "input"
FromPlan(msg) == msg.from = "plan"
FromAction(msg) == msg.from = "action"
StepsHanded(call) ==
  LET inPrompt == SelectSeq(call.prompt, FromPlan)
  IN call.system.steps \o [i \in 1..Len(inPrompt) |-> inPrompt[i].step]
ActionsHanded(call) ==
  LET inPrompt == SelectSeq(call.prompt, FromAction)
  IN call.system.actions \o [i \in 1..Len(inPrompt) |-> inPrompt[i].record]
C31_ResponseInput ==
  (responsePrompt.called /\ UserPositions # {})
    => /\ SelectSeq(responsePrompt.call.prompt, FromInput) = <<LastUserMessage>>
       /\ StepsHanded(responsePrompt.call) = phaseArgs.steps
       /\ ActionsHanded(responsePrompt.call) = phaseArgs.actions

\* ---------------------------------------------------------------- C37
\* C37: formatReasoningDetails returns one entry per plan step, in plan
\* order, then one entry per action record, in history order; entry k
\* (from 0) has index k, and no two entries have the same id.
C37_DetailsIndexed ==
  reasoningDetails.called
    => LET details == reasoningDetails.details
           P == Len(phaseArgs.steps)
           A == Len(phaseArgs.actions)
       IN /\ Len(details) = P + A
          /\ \A k \in 1..P : /\ details[k].type = "plan.step"
                             /\ details[k].raw = phaseArgs.steps[k]
          /\ \A k \in 1..A : /\ details[P + k].type = "action.observation"
                             /\ details[P + k].raw = phaseArgs.actions[k]
          /\ \A k \in 1..Len(details) : details[k].index = k - 1
          /\ \A i, j \in 1..Len(details) :
               details[i].id = details[j].id => i = j
C37_Witness ==
  /\ reasoningDetails.called
  /\ Len(phaseArgs.steps) = 2 /\ Len(phaseArgs.actions) = 2
  /\ Len(reasoningDetails.details) = 4

\* ---------------------------------------------------------------- C38
\* C38: no caller of initializeMCPTools gets a rejected promise; once a
\* caller's promise has settled the cache is set and no initialization
\* promise is held; and when loading failed the caller got the empty
\* toolset.
C38_NeverRejects ==
  \A c \in CallerIds :
    LET caller == mcp.callers[c]
    IN /\ caller.pc # "rejected"
       /\ caller.pc = "fulfilled"
            => /\ ~mcp.cache.null /\ ~mcp.initPromise
               /\ mcp.load.state = "rejected" => caller.tools = {}

\* ---------------------------------------------------------------- C39
\* C39: once close() has resolved, and as long as no initialize() call was
\* made after that, the manager holds no clients and is not initialized.
C39_ClosedIsEmpty ==
  (manager.close.pc = "resolved" /\ ~manager.late)
    => manager.clients = {} /\ ~manager.initialized

====
